---- MODULE Spec2Model ----
(***************************************************************************)
(* Model of i18n_gen: the synchronisation run of main (readRunInfo,        *)
(* processLocales, writeRunInfo), the checksum list, the phraseapp worker  *)
(* (Upload, Download, getLocales, downloadLocale, uploadLocaleImpl) and    *)
(* the i18nGenContext callbacks (Etag, OnDownload, OnUpload,               *)
(* ErrorHandler); two processes of the tool on the same files; and the    *)
(* goroutines of GetLocalizationJsonFromSources.                           *)
(*                                                                         *)
(* Representation.                                                         *)
(*  - A []byte is a sequence of byte values (0..255).                      *)
(*  - A uint32 is the pair <<hi, lo>> of its 16-bit halves (TLC integers   *)
(*    are 32-bit signed, so 2^32 - 1 does not fit in one integer).         *)
(*  - Time is counted in seconds (1e9 ns): GLOBAL_RUN_DELAY = 2e9 ns = 2.  *)
(*  - A Go string is a TLA+ string; Utf8 gives the bytes of the strings of *)
(*    the model.                                                           *)
(*  - The local filesystem is writable: os.Create and MkdirAll succeed,    *)
(*    and a call fails only for what another process did to the files: a   *)
(*    folder that is gone (ENOENT) or not empty (ENOTEMPTY).  Reads fail   *)
(*    in the ways readRunInfo tells apart.                                 *)
(*  - A function that reads or writes the files more than once, or waits   *)
(*    for the remote or for a goroutine in between, takes one step for     *)
(*    each part: readRunInfo (the read, the deferred os.Remove),           *)
(*    removeContents (the listing of the folder, and for each name of it   *)
(*    os.RemoveAll: the listing of the project folder, each unlink, the    *)
(*    rmdir), Upload (the scan of GetLocalesForUpdate with its goroutines, *)
(*    the request), downloadLocale (ctx.Etag; the answer and OnDownload up *)
(*    to os.MkdirAll; the open of ioutil.WriteFile; its write and the rest *)
(*    of OnDownload), writeRunInfo (os.Create, writer.Write).              *)
(***************************************************************************)
EXTENDS Integers, Sequences, FiniteSets, TLC

(***************************************************************************)
(* Bytes and 32-bit words                                                  *)
(***************************************************************************)

\* b[i] is bit i-1 of the word: the least significant bit first.
\* the n low bits of the natural number x, least significant first
BitsOf(x, n) ==
    SubSeq([i \in 1..n |-> (x \div 2^(i - 1)) % 2], 1, n)

RECURSIVE ValOf(_)
\* the natural number of a bit sequence, least significant first
ValOf(b) ==
    IF b = <<>> THEN 0 ELSE b[1] + 2 * ValOf(Tail(b))

\* bitwise exclusive or of two words of the same width
Xor32(a, b) ==
    SubSeq([i \in 1..Len(a) |-> (a[i] + b[i]) % 2], 1, Len(a))

\* logical shift right by one bit
Shr1(a) ==
    Tail(a) \o <<0>>

Ones32 ==
    BitsOf(65535, 16) \o BitsOf(65535, 16)

\* the uint32 <<hi, lo>> of a 32-bit word
Uint32(b) ==
    << ValOf(SubSeq(b, 17, 32)), ValOf(SubSeq(b, 1, 16)) >>

\* crc32.IEEE, reflected: 0xEDB88320 = 0xEDB8 * 2^16 + 0x8320
IEEEPoly ==
    BitsOf(33568, 16) \o BitsOf(60856, 16)

RECURSIVE CrcShift(_, _)
\* k rounds of the bitwise CRC step on the register c
CrcShift(c, k) ==
    IF k = 0 THEN c
    ELSE IF c[1] = 1 THEN CrcShift(Xor32(Shr1(c), IEEEPoly), k - 1)
    ELSE CrcShift(Shr1(c), k - 1)

\* the register after the byte b, starting from the register c
CrcByte(c, b) ==
    CrcShift(Xor32(c, BitsOf(b, 8) \o BitsOf(0, 24)), 8)

RECURSIVE CrcRange(_, _, _, _)
\* the register after the bytes data[i..j], starting from the register c:
\* after the first half of them, then after the second half (c is never
\* empty: the test makes TLC evaluate the register before the bytes, which
\* keeps the evaluation stack flat)
CrcRange(c, data, i, j) ==
    IF i > j \/ c = <<>> THEN c
    ELSE IF i = j THEN CrcByte(c, data[i])
    ELSE CrcRange(CrcRange(c, data, i, (i + j) \div 2), data, (i + j) \div 2 + 1, j)

\* the register after the bytes of data, starting from the register c
CrcUpdate(c, data) ==
    CrcRange(c, data, 1, Len(data))

\* hash/crc32.ChecksumIEEE(data): register preset to ones, result complemented
ChecksumIEEE(data) ==
    Uint32(Xor32(CrcUpdate(Ones32, data), Ones32))

(***************************************************************************)
(* Downloaded contents: the bytes a download response may carry.           *)
(***************************************************************************)

\* [{"id":"hello","translation":"hello"}]
BodyHello ==
    <<91, 123, 34, 105, 100, 34, 58, 34, 104, 101, 108, 108, 111, 34, 44, 34, 116, 114, 97, 110, 115, 108, 97, 116, 105, 111, 110, 34, 58, 34, 104, 101, 108, 108, 111, 34, 125, 93>>

\* [{"id":"a","translation":"\u0061"},{"id":"b","translation":"c"},{"id":"d","translation":"d"}]
BodyMixed ==
    <<91, 123, 34, 105, 100, 34, 58, 34, 97, 34, 44, 34, 116, 114, 97, 110, 115, 108, 97, 116, 105, 111, 110, 34, 58, 34, 92, 117, 48, 48, 54, 49, 34, 125, 44, 123, 34, 105, 100, 34, 58, 34, 98, 34, 44, 34, 116, 114, 97, 110, 115, 108, 97, 116, 105, 111, 110, 34, 58, 34, 99, 34, 125, 44, 123, 34, 105, 100, 34, 58, 34, 100, 34, 44, 34, 116, 114, 97, 110, 115, 108, 97, 116, 105, 111, 110, 34, 58, 34, 100, 34, 125, 93>>

\* []
BodyEmptyArray ==
    <<91, 93>>

\* {}
BodyObject ==
    <<123, 125>>

\* [{"id":1e0,"translation":1},-2.5]
BodyNumbers ==
    <<91, 123, 34, 105, 100, 34, 58, 49, 101, 48, 44, 34, 116, 114, 97, 110, 115, 108, 97, 116, 105, 111, 110, 34, 58, 49, 125, 44, 45, 50, 46, 53, 93>>

\* x
BodyGarbage ==
    <<120>>

\* a response body of length 0
BodyNone ==
    <<>>

\* the bodies that decode as a JSON array of objects
ValidBodies ==
    {BodyHello, BodyMixed, BodyEmptyArray}

Bodies ==
    ValidBodies \cup {BodyObject, BodyNumbers, BodyGarbage, BodyNone}

\* "id", "translation", "hello", "a", "d" as bytes
KeyId ==
    <<105, 100>>

KeyTranslation ==
    <<116, 114, 97, 110, 115, 108, 97, 116, 105, 111, 110>>

StrHello ==
    <<104, 101, 108, 108, 111>>

StrA ==
    <<97>>

StrD ==
    <<100>>

(***************************************************************************)
(* encoding/json, as far as OnDownload uses it: json.Unmarshal of the      *)
(* body into a []interface{}, with the grammar of its scanner.             *)
(* A decoded value is [t |-> kind, v |-> content]:                         *)
(*   "null" <<>> | "bool" <<0 or 1>> | "num" float64 | "str" bytes         *)
(*   | "arr" values | "obj" members [k |-> bytes, val |-> value]           *)
(* A string holds the bytes of the Go string: the UTF-8 of the JSON        *)
(* string with its escapes decoded, and U+FFFD for each byte that is no    *)
(* part of a valid encoding.                                               *)
(* A float64 is <<sign, exponent, fraction>>, the fields of its IEEE 754   *)
(* encoding: the sign bit, the biased exponent (0..2046) and the 52 bits   *)
(* of the fraction, most significant first; [t |-> "range"] is a number    *)
(* that no float64 holds.                                                  *)
(***************************************************************************)

JNil ==
    [t |-> "null", v |-> <<>>]

ParseFail ==
    [ok |-> FALSE, val |-> JNil, next |-> 0]

ParseOk(val, next) ==
    [ok |-> TRUE, val |-> val, next |-> next]

WhiteSpace ==
    {32, 9, 10, 13}

Digits ==
    48..57

\* 0-9, a-f, A-F
HexDigits ==
    (48..57) \cup (97..102) \cup (65..70)

\* the value of the hexadecimal digit b
HexValue(b) ==
    IF b \in 48..57 THEN b - 48 ELSE IF b \in 97..102 THEN b - 87 ELSE b - 55

\* the bytes that make an escape after a backslash, \u apart: " \ / b f n r t
Escapes ==
    {34, 92, 47, 98, 102, 110, 114, 116}

RECURSIVE SkipSpace(_, _)
\* the first index >= i of s that holds no white space (Len(s) + 1 at the end)
SkipSpace(s, i) ==
    IF i <= Len(s) /\ s[i] \in WhiteSpace THEN SkipSpace(s, i + 1) ELSE i

\* getu4(s[i:]): the number of the escape \uXXXX that starts at index i of s,
\* -1 when none starts there
Getu4(s, i) ==
    IF /\ i + 5 <= Len(s)
       /\ s[i] = 92
       /\ s[i + 1] = 117
       /\ \A k \in 2..5 : s[i + k] \in HexDigits
    THEN 4096 * HexValue(s[i + 2]) + 256 * HexValue(s[i + 3])
         + 16 * HexValue(s[i + 4]) + HexValue(s[i + 5])
    ELSE -1

RECURSIVE StringEnd(_, _)
\* stateInStringEsc: i is the index after a backslash in a string
StringEscape(s, i) ==
    IF i > Len(s) THEN 0
    ELSE IF s[i] \in Escapes THEN StringEnd(s, i + 1)
    ELSE IF s[i] = 117 /\ Getu4(s, i - 1) >= 0 THEN StringEnd(s, i + 5)
    ELSE 0

\* the index of the quote closing the string whose content goes on at i; 0
\* when there is none, or a control character or a wrong escape before it
StringEnd(s, i) ==
    IF i > Len(s) THEN 0
    ELSE IF s[i] = 34 THEN i
    ELSE IF s[i] = 92 THEN StringEscape(s, i + 1)
    ELSE IF s[i] < 32 THEN 0
    ELSE StringEnd(s, i + 1)

\* the index after the digits that start at i (i itself when none does)
DigitsEnd(s, i) ==
    IF i > Len(s) THEN i
    ELSE CHOOSE k \in i..(Len(s) + 1) :
            /\ \A j \in i..(k - 1) : s[j] \in Digits
            /\ k = Len(s) + 1 \/ s[k] \notin Digits

\* the index after the integer part that starts at i: a zero, or digits that
\* start with no zero; 0 when no digit is at i
IntegerEnd(s, i) ==
    IF i > Len(s) \/ s[i] \notin Digits THEN 0
    ELSE IF s[i] = 48 THEN i + 1
    ELSE DigitsEnd(s, i)

\* the index after the digits that must start at i; 0 when none does
SomeDigitsEnd(s, i) ==
    IF DigitsEnd(s, i) = i THEN 0 ELSE DigitsEnd(s, i)

\* the index after the fraction (a point and digits) that may start at k,
\* the index after the integer part (0 when that was wrong)
FractionEnd(s, k) ==
    IF k = 0 THEN 0
    ELSE IF k <= Len(s) /\ s[k] = 46 THEN SomeDigitsEnd(s, k + 1)
    ELSE k

\* the index after the exponent (e or E, a sign or none, digits) that may
\* start at k, the index after the fraction (0 when that was wrong)
ExponentEnd(s, k) ==
    IF k = 0 THEN 0
    ELSE IF k <= Len(s) /\ s[k] \in {101, 69}
        THEN SomeDigitsEnd(s, IF k + 1 <= Len(s) /\ s[k + 1] \in {43, 45}
                              THEN k + 2 ELSE k + 1)
    ELSE k

\* the index after the number that starts at i with a digit or a minus
\* sign; 0 when the bytes there make no number
NumberEnd(s, i) ==
    ExponentEnd(s, FractionEnd(s, IntegerEnd(s, IF s[i] = 45 THEN i + 1 ELSE i)))

\* the bytes 0x80..0xBF, which continue a UTF-8 encoding
Continuation ==
    128..191

\* b is the byte at index i of s and lies in the set r
ByteIn(s, i, r) ==
    i <= Len(s) /\ s[i] \in r

\* utf8.DecodeRune at index i of s: the width of the valid encoding that
\* starts there, 0 when none does (RuneError, and one byte is consumed)
DecodeRune(s, i) ==
    IF s[i] < 128 THEN 1
    ELSE IF s[i] \in 194..223
        THEN IF ByteIn(s, i + 1, Continuation) THEN 2 ELSE 0
    ELSE IF s[i] \in 224..239
        THEN IF /\ ByteIn(s, i + 1, IF s[i] = 224 THEN 160..191
                                     ELSE IF s[i] = 237 THEN 128..159
                                     ELSE Continuation)
                /\ ByteIn(s, i + 2, Continuation)
             THEN 3 ELSE 0
    ELSE IF s[i] \in 240..244
        THEN IF /\ ByteIn(s, i + 1, IF s[i] = 240 THEN 144..191
                                     ELSE IF s[i] = 244 THEN 128..143
                                     ELSE Continuation)
                /\ ByteIn(s, i + 2, Continuation)
                /\ ByteIn(s, i + 3, Continuation)
             THEN 4 ELSE 0
    ELSE 0

\* U+FFFD in UTF-8
RuneError ==
    <<239, 191, 189>>

\* utf8.EncodeRune: the UTF-8 of the code point r, which is no surrogate
EncodeRune(r) ==
    IF r < 128 THEN <<r>>
    ELSE IF r < 2048 THEN <<192 + (r \div 64), 128 + (r % 64)>>
    ELSE IF r < 65536
        THEN <<224 + (r \div 4096), 128 + ((r \div 64) % 64), 128 + (r % 64)>>
    ELSE <<240 + (r \div 262144), 128 + ((r \div 4096) % 64),
           128 + ((r \div 64) % 64), 128 + (r % 64)>>

\* the byte that the escape of the letter b stands for
Unescaped(b) ==
    IF b = 98 THEN 8
    ELSE IF b = 102 THEN 12
    ELSE IF b = 110 THEN 10
    ELSE IF b = 114 THEN 13
    ELSE IF b = 116 THEN 9
    ELSE b

\* the code points of the UTF-16 surrogates: the high ones, then the low ones
HighSurrogates ==
    55296..56319

LowSurrogates ==
    56320..57343

RECURSIVE UnquoteFrom(_, _, _)
\* the rune of width w at index i of s appended to acc, then the rest of s
UnquoteRune(s, i, acc, w) ==
    IF w = 0 THEN UnquoteFrom(s, i + 1, acc \o RuneError)
    ELSE UnquoteFrom(s, i + w, acc \o SubSeq(s, i, i + w - 1))

\* the escape \uXXXX of the surrogate rr at index i of s, rr1 being the
\* number of the escape after it: the two make one rune, or rr makes U+FFFD
UnquoteSurrogate(s, i, acc, rr, rr1) ==
    IF rr \in HighSurrogates /\ rr1 \in LowSurrogates
    THEN UnquoteFrom(s, i + 12,
                     acc \o EncodeRune((rr - 55296) * 1024 + (rr1 - 56320) + 65536))
    ELSE UnquoteFrom(s, i + 6, acc \o RuneError)

\* the escape \uXXXX with the number rr at index i of s
UnquoteU4(s, i, acc, rr) ==
    IF rr \in HighSurrogates \cup LowSurrogates
    THEN UnquoteSurrogate(s, i, acc, rr, Getu4(s, i + 6))
    ELSE UnquoteFrom(s, i + 6, acc \o EncodeRune(rr))

\* the escape whose backslash is at index i of s
UnquoteEscape(s, i, acc) ==
    IF s[i + 1] = 117 THEN UnquoteU4(s, i, acc, Getu4(s, i))
    ELSE UnquoteFrom(s, i + 2, Append(acc, Unescaped(s[i + 1])))

\* acc, then the runes of s from index i on, each encoded again
UnquoteFrom(s, i, acc) ==
    IF i > Len(s) THEN acc
    ELSE IF s[i] = 92 THEN UnquoteEscape(s, i, acc)
    ELSE UnquoteRune(s, i, acc, DecodeRune(s, i))

\* the Go string of the JSON string with the bytes s between its quotes
Unquote(s) ==
    UnquoteFrom(s, 1, <<>>)

\* a decimal number is taken four digits at a time: its limbs, in base 10000
LimbDigits ==
    4

LimbBase ==
    10000

\* the conversion to binary takes 16 bits in one round
ChunkBits ==
    16

ChunkBase ==
    65536

\* k zeros
Zeros(k) ==
    [i \in 1..k |-> 48]

RECURSIVE DecimalValue(_)
\* the number with the decimal digits d
DecimalValue(d) ==
    IF d = <<>> THEN 0
    ELSE 10 * DecimalValue(SubSeq(d, 1, Len(d) - 1)) + d[Len(d)] - 48

\* the limbs of the digits d, whose number is a multiple of four
Limbs(d) ==
    SubSeq([i \in 1..(Len(d) \div LimbDigits) |->
               DecimalValue(SubSeq(d, LimbDigits * (i - 1) + 1, LimbDigits * i))],
           1, Len(d) \div LimbDigits)

\* the zeros that bring the digits d to a multiple of four
Padding(d) ==
    Zeros((LimbDigits - (Len(d) % LimbDigits)) % LimbDigits)

\* the limbs of the decimal number d, most significant first
IntegerLimbs(d) ==
    Limbs(Padding(d) \o d)

\* the limbs of the decimal fraction 0.d, most significant first
FractionLimbs(d) ==
    Limbs(d \o Padding(d))

\* the 16 bits of x, most significant first
Chunk(x) ==
    SubSeq([j \in 1..ChunkBits |-> (x \div 2^(ChunkBits - j)) % 2], 1, ChunkBits)

\* the limb at index i of l; before the first one the limbs are zero
Limb(l, i) ==
    IF i < 1 THEN 0 ELSE l[i]

\* what the limbs l[1..i] leave when divided by 2^16: 10000^4 is a multiple
\* of 2^16, so the last four of them tell
Remainder(l, i) ==
    (Limb(l, i) + LimbBase * Limb(l, i - 1)
     + ((LimbBase * LimbBase) % ChunkBase) * Limb(l, i - 2)
     + ((((LimbBase * LimbBase) % ChunkBase) * LimbBase) % ChunkBase) * Limb(l, i - 3))
    % ChunkBase

\* the limbs l divided by 2^16: the quotient and the remainder
Divided(l) ==
    <<SubSeq([i \in 1..Len(l) |->
                 (Remainder(l, i - 1) * LimbBase + l[i]) \div ChunkBase],
             1, Len(l)),
      Remainder(l, Len(l))>>

\* every limb of l is zero
AllZero(l) ==
    \A i \in 1..Len(l) : l[i] = 0

\* the bits of the remainder qr[2] go before acc, the quotient qr[1] is left
BinaryStep(qr, acc) ==
    <<qr[1], Chunk(qr[2]) \o acc>>

RECURSIVE BinaryRounds(_, _)
\* at most k rounds of the division by 2^16 from st on, which holds the
\* limbs left and the bits taken from them; no round once the limbs are zero
BinaryRounds(st, k) ==
    IF AllZero(st[1]) THEN st
    ELSE IF k <= 1 THEN BinaryStep(Divided(st[1]), st[2])
    ELSE BinaryRounds(BinaryRounds(st, k \div 2), k - (k \div 2))

\* the bits of the number with the limbs l, most significant first (zero
\* bits may lead): a round takes more from it than a limb holds
BinaryOf(l) ==
    BinaryRounds(<<l, <<>>>>, Len(l))[2]

\* the bits b without the zero bits that lead
Significant(b) ==
    IF \A i \in 1..Len(b) : b[i] = 0 THEN <<>>
    ELSE SubSeq(b, CHOOSE k \in 1..Len(b) :
                       b[k] = 1 /\ \A j \in 1..(k - 1) : b[j] = 0,
                Len(b))

\* the limbs left and right of a product, and what the left ones carry
Joined(left, right) ==
    <<left[1] \o right[1], left[2]>>

RECURSIVE Multiplied(_, _, _, _)
\* the limbs l[a..m] times 2^16 before the product right of the limbs after
\* them, which carries right[2]
MultipliedLeft(l, a, m, right) ==
    Joined(Multiplied(l, a, m, right[2]), right)

\* the limbs l[a..b] of a fraction times 2^16, c being carried from the
\* limbs after them: the limbs of the product and what they carry (c is
\* never negative: the test makes TLC evaluate the carry before the limbs)
Multiplied(l, a, b, c) ==
    IF a > b \/ c < 0 THEN <<<<>>, c>>
    ELSE IF a = b
        THEN <<<<(l[a] * ChunkBase + c) % LimbBase>>,
               (l[a] * ChunkBase + c) \div LimbBase>>
    ELSE MultipliedLeft(l, a, (a + b) \div 2,
                        Multiplied(l, (a + b) \div 2 + 1, b, c))

\* the float64 has 53 bits of mantissa (52 in the fraction field), its
\* exponent is biased by 1023, its largest exponent field is 2046, and its
\* last bit is never worth less than 2^-1074
MantissaBits ==
    53

ExponentBias ==
    1023

MaxExponent ==
    2046

SmallestBit ==
    1074

\* the index of the first one among the bits b, Len(b) + 1 when there is none
FirstOne(b) ==
    CHOOSE k \in 1..(Len(b) + 1) :
        /\ \A j \in 1..(k - 1) : b[j] = 0
        /\ k = Len(b) + 1 \/ b[k] = 1

\* the bit at index i of b; the bits after the end of b are zero
Bit(b, i) ==
    IF i <= Len(b) THEN b[i] ELSE 0

\* the bits b, of which n are after the binary point, go as far as a
\* float64 can tell: one bit after its mantissa
Enough(b, n) ==
    \/ n > SmallestBit
    \/ Len(b) >= FirstOne(b) + MantissaBits

\* the bits b, then the integer part carried[2] of a product; the limbs
\* carried[1] of its fraction are left, and n counts the bits after the
\* binary point
FractionStep(carried, b, n) ==
    <<b \o Chunk(carried[2]), carried[1], n + ChunkBits>>

RECURSIVE FractionRounds(_, _)
\* at most k rounds of the multiplication by 2^16 from st on, which holds
\* the bits taken, the limbs of the fraction left and the number of bits
\* after the binary point; no round once a float64 can tell no more, or
\* the fraction is zero
FractionRounds(st, k) ==
    IF Enough(st[1], st[3]) \/ AllZero(st[2]) THEN st
    ELSE IF k <= 1
        THEN FractionStep(Multiplied(st[2], 1, Len(st[2]), 0), st[1], st[3])
    ELSE FractionRounds(FractionRounds(st, k \div 2), k - (k \div 2))

\* the bits b and then those of the fraction with the limbs l, as far as a
\* float64 can tell; and the limbs of the fraction that is left after them
FractionBits(l, b) ==
    FractionRounds(<<b, l, 0>>, SmallestBit \div ChunkBits + 2)

\* the index of the last zero among the bits m, 0 when there is none
LastZero(m) ==
    CHOOSE k \in 0..Len(m) :
        /\ \A j \in (k + 1)..Len(m) : m[j] = 1
        /\ k = 0 \/ m[k] = 0

\* the mantissa m plus one: it grows by a bit when all its bits are one
RoundedUp(m) ==
    IF LastZero(m) = 0 THEN <<1>> \o [i \in 1..Len(m) |-> 0]
    ELSE SubSeq(m, 1, LastZero(m) - 1) \o <<1>>
         \o [i \in 1..(Len(m) - LastZero(m)) |-> 0]

\* the mantissa m rounded to the nearest, to the even one in a tie: round is
\* the bit after m, sticky tells whether any bit after that one is set
RoundToEven(m, round, sticky) ==
    IF round = 1 /\ (sticky \/ (m # <<>> /\ m[Len(m)] = 1))
    THEN RoundedUp(m)
    ELSE m

\* +0 or -0
Zero(sign) ==
    <<sign, 0, [i \in 1..(MantissaBits - 1) |-> 0]>>

\* the float64 with the mantissa m, whose last bit is worth 2^low: below
\* 53 bits it is not normalised, and above the largest exponent it is out
\* of range
Float(sign, m, low) ==
    IF Len(m) < MantissaBits
    THEN [t |-> "num",
          v |-> <<sign, 0, [i \in 1..(MantissaBits - 1 - Len(m)) |-> 0] \o m>>]
    ELSE IF low + Len(m) - 1 + ExponentBias > MaxExponent
    THEN [t |-> "range", v |-> <<>>]
    ELSE [t |-> "num",
          v |-> <<sign, low + Len(m) - 1 + ExponentBias,
                  SubSeq(m, 2, MantissaBits)>>]

\* the float64 nearest to the number with the bits b, of which int are
\* before the binary point, and with a rest after them that is not zero
\* when sticky; end is the index of the last bit its mantissa takes
Rounded(sign, b, int, sticky, end) ==
    Float(sign,
          RoundToEven(SubSeq([j \in 1..(end - FirstOne(b) + 1) |->
                                 Bit(b, FirstOne(b) + j - 1)],
                             1, end - FirstOne(b) + 1),
                      Bit(b, end + 1),
                      sticky \/ \E i \in (end + 2)..Len(b) : b[i] = 1),
          int - end)

\* the same: the mantissa is the 53 bits from the first one on, or ends
\* before them at the bit worth 2^-1074
Nearest(sign, b, int, sticky) ==
    IF FirstOne(b) > Len(b) THEN [t |-> "num", v |-> Zero(sign)]
    ELSE Rounded(sign, b, int, sticky,
                 IF FirstOne(b) + MantissaBits - 1 < int + SmallestBit
                 THEN FirstOne(b) + MantissaBits - 1
                 ELSE int + SmallestBit)

\* the float64 nearest to the number whose bits before the binary point
\* are b and whose bits after it are those of the bits r[1] that follow b;
\* r[2] holds the limbs of the fraction left after them
FromBits(sign, int, r) ==
    Nearest(sign, r[1], int, \E i \in 1..Len(r[2]) : r[2][i] # 0)

\* the float64 nearest to the number with the bits b before the binary
\* point and the decimal fraction 0.d after it
FromFixed(sign, b, d) ==
    FromBits(sign, Len(b), FractionBits(FractionLimbs(d), b))

\* the number of zeros that lead in the digits d
LeadingZeros(d) ==
    CHOOSE k \in 0..Len(d) :
        /\ \A j \in 1..k : d[j] = 48
        /\ k = Len(d) \/ d[k + 1] # 48

\* the largest and the smallest place of a first digit: 10^309 is above
\* every float64, and 10^-324 is below half of the smallest one
MaxDecimalPoint ==
    309

MinDecimalPoint ==
    -323

\* the float64 nearest to 0.d * 10^dp, where the digits d start with no zero
Scaled(sign, d, dp) ==
    IF d = <<>> THEN [t |-> "num", v |-> Zero(sign)]
    ELSE IF dp > MaxDecimalPoint THEN [t |-> "range", v |-> <<>>]
    ELSE IF dp < MinDecimalPoint THEN [t |-> "num", v |-> Zero(sign)]
    ELSE IF dp <= 0
        THEN FromFixed(sign, <<>>, Zeros(-dp) \o d)
    ELSE IF dp >= Len(d)
        THEN FromFixed(sign,
                       Significant(BinaryOf(IntegerLimbs(d \o Zeros(dp - Len(d))))),
                       <<>>)
    ELSE FromFixed(sign, Significant(BinaryOf(IntegerLimbs(SubSeq(d, 1, dp)))),
                   SubSeq(d, dp + 1, Len(d)))

\* the digits an exponent is read from: the loop of readFloat adds a digit
\* while the exponent is below 10000
ExponentDigits ==
    5

\* the exponent with the digits d, read as readFloat does
ExponentValue(d) ==
    DecimalValue(SubSeq(d, LeadingZeros(d) + 1,
                        IF Len(d) < LeadingZeros(d) + ExponentDigits THEN Len(d)
                        ELSE LeadingZeros(d) + ExponentDigits))

\* the exponent of the number s, which starts at index k of s when k is
\* within s: e or E, a sign or none, digits
Exponent(s, k) ==
    IF k > Len(s) THEN 0
    ELSE IF s[k + 1] = 45 THEN -ExponentValue(SubSeq(s, k + 2, Len(s)))
    ELSE IF s[k + 1] = 43 THEN ExponentValue(SubSeq(s, k + 2, Len(s)))
    ELSE ExponentValue(SubSeq(s, k + 1, Len(s)))

\* the float64 nearest to the number with the digits d, int of them before
\* the decimal point, times 10^exp
Atof(sign, d, int, exp) ==
    Scaled(sign, SubSeq(d, LeadingZeros(d) + 1, Len(d)),
           int - LeadingZeros(d) + exp)

\* the number s, whose integer part is s[i .. p-1] and whose fraction, if
\* it has one, is s[p+1 .. q-1]
ConvertParts(s, i, p, q) ==
    Atof(IF i = 2 THEN 1 ELSE 0, SubSeq(s, i, p - 1) \o SubSeq(s, p + 1, q - 1),
         p - i, Exponent(s, q))

\* the number s, whose integer part is s[i .. p-1]
ConvertInteger(s, i, p) ==
    ConvertParts(s, i, p, IF p <= Len(s) /\ s[p] = 46 THEN DigitsEnd(s, p + 1) ELSE p)

\* d.convertNumber(s): strconv.ParseFloat(s, 64) of the bytes s of a number
ConvertNumber(s) ==
    ConvertInteger(s, IF s[1] = 45 THEN 2 ELSE 1,
                   DigitsEnd(s, IF s[1] = 45 THEN 2 ELSE 1))

HasLiteral(s, i, lit) ==
    /\ i + Len(lit) - 1 <= Len(s)
    /\ SubSeq(s, i, i + Len(lit) - 1) = lit

RECURSIVE ParseValue(_, _)
RECURSIVE ParseElements(_, _, _)
RECURSIVE ParseMembers(_, _, _)

\* after the element e of an array, k the index of the next token: a comma
\* and more elements, or the closing bracket
ElementsAfter(s, acc, e, k) ==
    IF ~e.ok \/ k > Len(s) THEN ParseFail
    ELSE IF s[k] = 44 THEN ParseElements(s, k + 1, Append(acc, e.val))
    ELSE IF s[k] = 93 THEN ParseOk([t |-> "arr", v |-> Append(acc, e.val)], k + 1)
    ELSE ParseFail

ElementParsed(s, acc, e) ==
    ElementsAfter(s, acc, e, SkipSpace(s, e.next))

\* the elements of an array from index i on, after the elements acc
ParseElements(s, i, acc) ==
    ElementParsed(s, acc, ParseValue(s, i))

\* after the member key: e of an object, k the index of the next token: a
\* comma and more members, or the closing brace
MembersAfter(s, acc, key, e, k) ==
    IF ~e.ok \/ k > Len(s) THEN ParseFail
    ELSE IF s[k] = 44
        THEN ParseMembers(s, k + 1, Append(acc, [k |-> key, val |-> e.val]))
    ELSE IF s[k] = 125
        THEN ParseOk([t |-> "obj", v |-> Append(acc, [k |-> key, val |-> e.val])], k + 1)
    ELSE ParseFail

MemberParsed(s, acc, key, e) ==
    MembersAfter(s, acc, key, e, SkipSpace(s, e.next))

\* the member whose key is s[q+1 .. qe-1], c the index of the token after it
MemberColon(s, acc, q, qe, c) ==
    IF c > Len(s) \/ s[c] # 58 THEN ParseFail
    ELSE MemberParsed(s, acc, Unquote(SubSeq(s, q + 1, qe - 1)),
                      ParseValue(s, c + 1))

\* the member whose key opens at q and closes at qe (0 when it does not)
MemberKey(s, acc, q, qe) ==
    IF qe = 0 THEN ParseFail ELSE MemberColon(s, acc, q, qe, SkipSpace(s, qe + 1))

\* the member whose first token is at q
MemberStart(s, acc, q) ==
    IF q > Len(s) \/ s[q] # 34 THEN ParseFail
    ELSE MemberKey(s, acc, q, StringEnd(s, q + 1))

\* the members of an object from index i on, after the members acc
ParseMembers(s, i, acc) ==
    MemberStart(s, acc, SkipSpace(s, i))

\* the array or object opened at j, k the index of the token after the opening
ArrayAt(s, j, k) ==
    IF k <= Len(s) /\ s[k] = 93
    THEN ParseOk([t |-> "arr", v |-> <<>>], k + 1)
    ELSE ParseElements(s, j + 1, <<>>)

ObjectAt(s, j, k) ==
    IF k <= Len(s) /\ s[k] = 125
    THEN ParseOk([t |-> "obj", v |-> <<>>], k + 1)
    ELSE ParseMembers(s, j + 1, <<>>)

\* the string opened at j, e the index of its closing quote (0 when none)
StringAt(s, j, e) ==
    IF e = 0 THEN ParseFail
    ELSE ParseOk([t |-> "str", v |-> Unquote(SubSeq(s, j + 1, e - 1))], e + 1)

\* the number that starts at j, e the index after it (0 when there is none)
NumberAt(s, j, e) ==
    IF e = 0 THEN ParseFail
    ELSE ParseOk(ConvertNumber(SubSeq(s, j, e - 1)), e)

\* the JSON value whose first byte is at index j of s
ValueAt(s, j) ==
    IF j > Len(s) THEN ParseFail
    ELSE IF s[j] = 91 THEN ArrayAt(s, j, SkipSpace(s, j + 1))
    ELSE IF s[j] = 123 THEN ObjectAt(s, j, SkipSpace(s, j + 1))
    ELSE IF s[j] = 34 THEN StringAt(s, j, StringEnd(s, j + 1))
    ELSE IF s[j] = 45 \/ s[j] \in Digits THEN NumberAt(s, j, NumberEnd(s, j))
    ELSE IF HasLiteral(s, j, <<110, 117, 108, 108>>) THEN ParseOk(JNil, j + 4)
    ELSE IF HasLiteral(s, j, <<116, 114, 117, 101>>)
        THEN ParseOk([t |-> "bool", v |-> <<1>>], j + 4)
    ELSE IF HasLiteral(s, j, <<102, 97, 108, 115, 101>>)
        THEN ParseOk([t |-> "bool", v |-> <<0>>], j + 5)
    ELSE ParseFail

\* the JSON value that starts at index i of s (white space skipped)
ParseValue(s, i) ==
    ValueAt(s, SkipSpace(s, i))

RECURSIVE HasRangeError(_)
\* the decoder saved an error: a number in val is out of the range of float64
HasRangeError(val) ==
    \/ val.t = "range"
    \/ val.t = "arr" /\ \E i \in 1..Len(val.v) : HasRangeError(val.v[i])
    \/ val.t = "obj" /\ \E i \in 1..Len(val.v) : HasRangeError(val.v[i].val)

\* what json.Unmarshal makes of the parse r of the whole of data
Decoded(data, r) ==
    IF ~r.ok \/ SkipSpace(data, r.next) # Len(data) + 1
        THEN [err |-> "syntax", elems |-> <<>>]
    ELSE IF r.val.t = "null" THEN [err |-> "", elems |-> <<>>]
    ELSE IF r.val.t # "arr" \/ HasRangeError(r.val)
        THEN [err |-> "type", elems |-> <<>>]
    ELSE [err |-> "", elems |-> r.val.v]

\* json.Unmarshal(data, &decodedData) with decodedData a []interface{}:
\* err is "syntax" (the data is no JSON text), "type" (a JSON value that is
\* no array, or a number that no float64 holds), or "" with the decoded
\* elements (null decodes to no elements).
Decode(data) ==
    Decoded(data, ParseValue(data, 1))

\* Decode on the bodies of the model, computed once
DecodeTable ==
    (BodyHello :> Decode(BodyHello)) @@ (BodyMixed :> Decode(BodyMixed))
    @@ (BodyEmptyArray :> Decode(BodyEmptyArray))
    @@ (BodyObject :> Decode(BodyObject))
    @@ (BodyNumbers :> Decode(BodyNumbers))
    @@ (BodyGarbage :> Decode(BodyGarbage))

\* json.Unmarshal(data, &decodedData)
Unmarshal(data) ==
    IF data \in DOMAIN DecodeTable THEN DecodeTable[data] ELSE Decode(data)

RECURSIVE MapIndex(_, _)
\* d[key] of a decoded object (a map[string]interface{}): the value of the
\* last member named key, nil when there is none
MapIndex(members, key) ==
    IF members = <<>> THEN JNil
    ELSE IF members[Len(members)].k = key THEN members[Len(members)].val
    ELSE MapIndex(SubSeq(members, 1, Len(members) - 1), key)

\* a == b on two float64: +0 and -0 are equal (no NaN is decoded)
FloatEq(a, b) ==
    \/ a = b
    \/ a[2] = 0 /\ b[2] = 0 /\ a[3] = b[3] /\ a[3] = Zero(0)[3]

\* a == b on two interface{} values: "true", "false", or "panic" when both
\* hold a slice or both hold a map (uncomparable dynamic type)
InterfaceEq(a, b) ==
    IF a.t # b.t THEN "false"
    ELSE IF a.t \in {"arr", "obj"} THEN "panic"
    ELSE IF a.t = "num" THEN (IF FloatEq(a.v, b.v) THEN "true" ELSE "false")
    ELSE IF a.v = b.v THEN "true"
    ELSE "false"

(***************************************************************************)
(* Constants of the program and the inputs of the model                    *)
(***************************************************************************)

\* const INVALID_CRC32 = 0, as a uint32
INVALID_CRC32 ==
    <<0, 0>>

\* const GLOBAL_RUN_DELAY = 2e9 nanoseconds, in seconds
GLOBAL_RUN_DELAY ==
    2

\* const BACKEND: the default project name
BACKEND ==
    "Backend"

\* createConfig: perPage := 25
PerPage ==
    25

\* the number of processes started one after the other
MaxRuns ==
    2

\* the time, in seconds, between two starts of the tool: the minimum
\* interval itself and the first one above it
Delays ==
    {GLOBAL_RUN_DELAY, GLOBAL_RUN_DELAY + 1}

\* the clock, in seconds, before the first start (time.Now() is far from 0)
StartTime ==
    10

\* the -project_id flags: project name -> phraseapp project id
phraseappProjects ==
    [name \in {BACKEND, "Web"} |-> IF name = BACKEND THEN "id-backend" ELSE "id-web"]

\* defaultProject and defaultLocale: flag.String is read before flag.Parse,
\* so both always hold the flag's default value
defaultProject ==
    BACKEND

defaultLocale ==
    "en-US"

LocaleNames ==
    {"en-US", "ru"}

\* a phraseapp.Locale, as far as Download reads it
Locale(name) ==
    [ID |-> IF name = "en-US" THEN "loc-1" ELSE "loc-2", Name |-> name]

\* the locale listings the remote may answer for a project (all shorter
\* than a page): project Web has no locale yet, and a name may be listed twice
Listings(name) ==
    IF name = BACKEND
    THEN { <<Locale("en-US")>>, <<Locale("en-US"), Locale("ru")>>,
           <<Locale("ru"), Locale("ru")>> }
    ELSE { <<>> }

\* the ETag header values the remote may send: a strong entity-tag and a
\* weak one, each with the quotes the header holds
EtagOne ==
    "\"e1\""

EtagTwo ==
    "W/\"e2\""

ETags ==
    {EtagOne, EtagTwo}

\* []byte(s) for the strings of the model: no token, the tokens, the names
\* of the projects and of the locales
Utf8 ==
    ("" :> <<>>) @@ (EtagOne :> <<34, 101, 49, 34>>)
    @@ (EtagTwo :> <<87, 47, 34, 101, 50, 34>>)
    @@ (BACKEND :> <<66, 97, 99, 107, 101, 110, 100>>) @@ ("Web" :> <<87, 101, 98>>)
    @@ ("en-US" :> <<101, 110, 45, 85, 83>>) @@ ("ru" :> <<114, 117>>)

Pairs ==
    (DOMAIN phraseappProjects) \X LocaleNames

\* an HTTP exchange of a download: sent is FALSE when localClient.Do failed
Response(sent, status, hasEtag, etag, body) ==
    [sent |-> sent, status |-> status, hasEtag |-> hasEtag, etag |-> etag, body |-> body]

NoResponse ==
    Response(FALSE, 0, FALSE, "", BodyNone)

\* the answers a download request may get: no answer; an answer without the
\* ETag header; 304 (without and with a body) and 500; 200 with each body
DownloadResponses ==
    { NoResponse,
      Response(TRUE, 200, FALSE, "", BodyHello),
      Response(TRUE, 304, FALSE, "", BodyNone),
      Response(TRUE, 500, FALSE, "", BodyNone),
      Response(TRUE, 304, TRUE, EtagOne, BodyNone),
      Response(TRUE, 304, TRUE, EtagTwo, BodyHello),
      Response(TRUE, 500, TRUE, EtagOne, BodyNone),
      Response(TRUE, 200, TRUE, EtagOne, BodyNone),
      Response(TRUE, 200, TRUE, EtagOne, BodyHello),
      Response(TRUE, 200, TRUE, EtagTwo, BodyHello),
      Response(TRUE, 200, TRUE, EtagTwo, BodyMixed),
      Response(TRUE, 200, TRUE, EtagTwo, BodyObject),
      Response(TRUE, 200, TRUE, EtagTwo, BodyNumbers),
      Response(TRUE, 200, TRUE, EtagOne, BodyGarbage) }

\* the answers an upload request may get: 0 stands for a failed localClient.Do
UploadStatuses ==
    {0, 200, 201, 204, 500}

(***************************************************************************)
(* State                                                                   *)
(***************************************************************************)

VARIABLES
    pc,           \* where the process is; "idle" when no process runs
    exit,         \* how the last process ended: none, done, gated, fatal (log.Fatal),
                  \* panic, throw (a fatal error of the runtime)
    runs,         \* processes started so far
    now,          \* time.Now(), in seconds
    runInfo,      \* var runInfo RunInfo
    runInfoFile,  \* the file getRunInfoFileName() names
    localeFiles,  \* the files getLocalizationFileName(project, locale) names
    folders,      \* the project folders in getLocalizationFolderName()
    removing,     \* removeContents: what its loop and os.RemoveAll have left to do
    todo,         \* Download: the projects the range loop has not visited
    project,      \* Download: the project of the current iteration
    locales,      \* Download: the locales of that project still to download
    calls,        \* requests to the remote made by the current process
    trusted,      \* Etag of every pair as the process found the disk at its start
    last,         \* what the last step did and reported
    remotePages,  \* getLocales: the pages the remote answers, by page number
    writes,       \* times the current process wrote the run-info file
    skipped,      \* <<project, locale, If-None-Match sent>> of each download
                  \* of the current process that was answered 304
    other,        \* a second process of the tool started on the same files
    gen           \* GetLocalizationJsonFromSources: its goroutines and *FuncVisitor

vars ==
    <<pc, exit, runs, now, runInfo, runInfoFile, localeFiles, folders, removing,
      todo, project, locales, calls, trusted, last, remotePages, writes, skipped,
      other, gen>>

CheckSum(crc32, etag, p, l) ==
    [DataCrc32 |-> crc32, ETag |-> etag, ProjectName |-> p, LocaleName |-> l]

\* RunInfo{}: the zero value
EmptyRunInfo ==
    [CheckSumList |-> <<>>, LastRunTime |-> 0]

\* a local file: missing, or its bytes and the processes that hold a
\* descriptor ioutil.WriteFile opened for it
NoFile ==
    [exists |-> FALSE, data |-> <<>>, open |-> {}]

FileOf(data) ==
    [exists |-> TRUE, data |-> data, open |-> {}]

\* removeContents: the names of its listing it has not visited, the name
\* os.RemoveAll works on and the entries of that folder it has not unlinked
NotRemoving ==
    [names |-> {}, name |-> "", entries |-> {}]

\* 10^k as a uint32 <<hi, lo>>, for k = 1..9
PowersOfTen ==
    << <<0, 10>>, <<0, 100>>, <<0, 1000>>, <<0, 10000>>, <<1, 34464>>,
       <<15, 16960>>, <<152, 38528>>, <<1525, 57600>>, <<15258, 51712>> >>

\* the decimal digits of the uint32 c
DecimalDigits(c) ==
    1 + Cardinality({ k \in 1..9 :
                        \/ c[1] > PowersOfTen[k][1]
                        \/ c[1] = PowersOfTen[k][1] /\ c[2] >= PowersOfTen[k][2] })

\* the digits of time.Now().UnixNano(), from 2001 to 2262
UnixNanoDigits ==
    19

\* the bytes json.Marshal writes for the byte b < 0x80 of a string: two for
\* the quote, the backslash and the escapes \n \r \t \b \f (the last two
\* since Go 1.22), six (\u00XX) for another control character and for
\* < > &, and the byte itself otherwise
EscapedSize(b) ==
    IF b \in {34, 92, 10, 13, 9, 8, 12} THEN 2
    ELSE IF b < 32 \/ b \in {60, 62, 38} THEN 6
    ELSE 1

RECURSIVE StringSize(_, _)
\* the bytes json.Marshal writes for the bytes of s from index i on: a byte
\* that is no part of a valid encoding, and U+2028 and U+2029, take six
StringSize(s, i) ==
    IF i > Len(s) THEN 0
    ELSE IF s[i] < 128 THEN EscapedSize(s[i]) + StringSize(s, i + 1)
    ELSE IF DecodeRune(s, i) = 0 THEN 6 + StringSize(s, i + 1)
    ELSE IF /\ DecodeRune(s, i) = 3
            /\ SubSeq(s, i, i + 2) \in {<<226, 128, 168>>, <<226, 128, 169>>}
        THEN 6 + StringSize(s, i + 3)
    ELSE DecodeRune(s, i) + StringSize(s, i + DecodeRune(s, i))

\* the bytes of the Go string str as a JSON string, its quotes included
QuotedSize(str) ==
    2 + StringSize(Utf8[str], 1)

RECURSIVE RecordsSize(_)
\* the bytes of the records of c in JSON, each one
\* {"crc32":N,"etag":"E","project":"P","locale":"L"} after a comma
RecordsSize(c) ==
    IF c = <<>> THEN 0
    ELSE 40 + DecimalDigits(c[1].DataCrc32) + QuotedSize(c[1].ETag)
            + QuotedSize(c[1].ProjectName) + QuotedSize(c[1].LocaleName)
            + RecordsSize(Tail(c))

\* len of json.Marshal(&runInfo): {"lst":[...],"last_run_time":T}, with
\* null for a list without records
MarshalSize(lst, time) ==
    25 + (IF lst = <<>> THEN 4 ELSE 1 + RecordsSize(lst))
       + (IF time = 0 THEN 1 ELSE UnixNanoDigits)

\* the run-info file: kind is "absent" (os.Open fails), "unreadable"
\* (ReadAll fails), "syntax" (no JSON text) or "json": an object whose "lst"
\* and "last_run_time" each have the type of their field (ok) or another one.
\* size is its length in bytes (that of the well-typed object for "json", one
\* byte for the other files that exist), open the processes that hold a
\* descriptor os.Create gave them for it.
RunInfoFile(kind, lstOk, lst, timeOk, time) ==
    [kind |-> kind, lstOk |-> lstOk, lst |-> lst, timeOk |-> timeOk, time |-> time,
     size |-> IF kind = "json" THEN MarshalSize(lst, time)
              ELSE IF kind = "absent" THEN 0 ELSE 1,
     open |-> {}]

AbsentRunInfoFile ==
    RunInfoFile("absent", FALSE, <<>>, FALSE, 0)

\* what a step reports: the callbacks invoked, the errors handed to
\* ErrorHandler, the warnings logged, the request and its answer, the
\* identifiers in the JSON uploaded
NoStep ==
    [op |-> "none", project |-> "", locale |-> "", etag |-> "", stored |-> "",
     resp |-> NoResponse, status |-> 0, onUpload |-> 0, onDownload |-> 0,
     errors |-> 0, warnings |-> <<>>, result |-> <<>>, requests |-> <<>>,
     uploaded |-> {}]

\* no second process has been started: its position, its var runInfo, the
\* pairs it upserted, the locale of its download, and its removeContents
NoOther ==
    [pc |-> "none", runInfo |-> EmptyRunInfo, upserted |-> {}, locale |-> "",
     removing |-> NotRemoving, writes |-> 0]

(***************************************************************************)
(* The checksum list                                                       *)
(***************************************************************************)

\* crc32.ChecksumIEEE on the bodies of the model, computed once
ChecksumTable ==
    (BodyHello :> ChecksumIEEE(BodyHello)) @@ (BodyMixed :> ChecksumIEEE(BodyMixed))
    @@ (BodyEmptyArray :> ChecksumIEEE(BodyEmptyArray))
    @@ (BodyObject :> ChecksumIEEE(BodyObject))
    @@ (BodyNumbers :> ChecksumIEEE(BodyNumbers))
    @@ (BodyGarbage :> ChecksumIEEE(BodyGarbage))

\* crc32.ChecksumIEEE(data)
Crc32(data) ==
    IF data \in DOMAIN ChecksumTable THEN ChecksumTable[data] ELSE ChecksumIEEE(data)

RECURSIVE Find(_, _, _, _)
\* the index >= i of the first record of c for the pair (p, l); 0 if none:
\* the range loop the three methods of CheckSumList share
Find(c, p, l, i) ==
    IF i > Len(c) THEN 0
    ELSE IF c[i].LocaleName = l /\ c[i].ProjectName = p THEN i
    ELSE Find(c, p, l, i + 1)

GetETag(c, p, l) ==
    LET i == Find(c, p, l, 1) IN IF i = 0 THEN "" ELSE c[i].ETag

GetCrc32(c, p, l) ==
    LET i == Find(c, p, l, 1) IN IF i = 0 THEN INVALID_CRC32 ELSE c[i].DataCrc32

\* the list after c.Upsert(p, l, etag, crc32)
\* Upsert that drops the record of the pair and appends the new one
UpsertMovesToEnd(c, p, l, etag, crc32) ==
    LET Other(e) == ~(e.ProjectName = p /\ e.LocaleName = l)
    IN  Append(SelectSeq(c, Other), CheckSum(crc32, etag, p, l))

\* Upsert that takes a record for the pair's only when its token is the new one
UpsertMatchesToken(c, p, l, etag, crc32) ==
    LET same == { i \in 1..Len(c) : /\ c[i].ProjectName = p
                                    /\ c[i].LocaleName = l
                                    /\ c[i].ETag = etag }
    IN  IF same = {} THEN Append(c, CheckSum(crc32, etag, p, l))
        ELSE [c EXCEPT ![CHOOSE i \in same : TRUE].DataCrc32 = crc32]

Upsert(c, p, l, etag, crc32) ==
    LET i == Find(c, p, l, 1)
    IN  IF i = 0 THEN Append(c, CheckSum(crc32, etag, p, l))
        ELSE [c EXCEPT ![i].DataCrc32 = crc32, ![i].ETag = etag]

(***************************************************************************)
(* i18nGenContext                                                          *)
(***************************************************************************)

\* getFileCrc32 that answers with the hash on record, not with the file's
getFileCrc32OfRecord(projectName, localeName) ==
    GetCrc32(runInfo.CheckSumList, projectName, localeName)

getFileCrc32(projectName, localeName) ==
    LET file == localeFiles[<<projectName, localeName>>]
    IN  IF ~file.exists THEN INVALID_CRC32 ELSE Crc32(file.data)

\* Etag without the look at the local file
EtagIgnoresFile(projectName, localeName) ==
    IF GetCrc32(runInfo.CheckSumList, projectName, localeName) # INVALID_CRC32
    THEN GetETag(runInfo.CheckSumList, projectName, localeName)
    ELSE ""

Etag(projectName, localeName) ==
    LET origCrc32  == GetCrc32(runInfo.CheckSumList, projectName, localeName)
        existCrc32 == getFileCrc32(projectName, localeName)
    IN  IF origCrc32 # INVALID_CRC32 /\ origCrc32 = existCrc32
        THEN GetETag(runInfo.CheckSumList, projectName, localeName)
        ELSE ""

\* ErrorHandler(err) is log.Fatal(err): the process ends with this exit
ErrorHandler ==
    "fatal"

RECURSIVE ScanEntriesWarnsAll(_, _)
\* the loop with the id compared to itself: every entry is warned about
ScanEntriesWarnsAll(elems, warnings) ==
    IF elems = <<>> THEN [exit |-> "", warnings |-> warnings]
    ELSE IF Head(elems).t # "obj" THEN [exit |-> "panic", warnings |-> warnings]
    ELSE ScanEntriesWarnsAll(Tail(elems),
                             Append(warnings, MapIndex(Head(elems).v, KeyId)))

RECURSIVE ScanEntries(_, _)
\* the loop over decodedData: the ids warned about so far are in warnings;
\* exit is "panic" when m.(map[string]interface{}) or the comparison panics
ScanEntries(elems, warnings) ==
    IF elems = <<>> THEN [exit |-> "", warnings |-> warnings]
    ELSE IF Head(elems).t # "obj" THEN [exit |-> "panic", warnings |-> warnings]
    ELSE LET d  == Head(elems).v
             eq == InterfaceEq(MapIndex(d, KeyId), MapIndex(d, KeyTranslation))
         IN  IF eq = "panic" THEN [exit |-> "panic", warnings |-> warnings]
             ELSE ScanEntries(Tail(elems),
                              IF eq = "true" THEN Append(warnings, MapIndex(d, KeyId))
                              ELSE warnings)

\* os.MkdirAll(filepath.Join(getLocalizationFolderName(), projectName), 0777):
\* the project folders after it
MkdirAll(dirs, projectName) ==
    dirs \cup {projectName}

\* ioutil.WriteFile up to its write, by the process who:
\* os.OpenFile(filename, O_WRONLY|O_CREATE|O_TRUNC, perm) makes the file, or
\* cuts it to no bytes when it exists, and who holds a descriptor for it
OpenFile(file, who) ==
    [exists |-> TRUE, data |-> <<>>, open |-> file.open \cup {who}]

\* ioutil.WriteFile from its write on, by the process who: f.Write(data) puts
\* the bytes at offset 0 of the file who opened, and f.Close().  When the file
\* was unlinked since, it has no name any more; when another process wrote
\* more bytes since, the end of those bytes stays behind the ones who writes.
WriteAt(file, who, data) ==
    IF who \notin file.open THEN file
    ELSE [file EXCEPT !.data = data \o SubSeq(@, Len(data) + 1, Len(@)),
                      !.open = @ \ {who}]

\* OnDownload(projectName, localeName, newEtag, data) after ioutil.WriteFile
\* returned: the exit it causes ("" when it returns), the warnings it logs
\* and the list after it
OnDownload(projectName, localeName, newEtag, data) ==
    LET decoded == Unmarshal(data)
        scan    == ScanEntries(decoded.elems, <<>>)
    IN  IF decoded.err # ""
        THEN [exit |-> "fatal", warnings |-> <<>>, list |-> runInfo.CheckSumList]
        ELSE IF scan.exit # ""
        THEN [exit |-> scan.exit, warnings |-> scan.warnings,
              list |-> runInfo.CheckSumList]
        ELSE [exit |-> "", warnings |-> scan.warnings,
              list |-> Upsert(runInfo.CheckSumList, projectName, localeName,
                              newEtag, Crc32(data))]

(***************************************************************************)
(* PhraseappWorkerContext                                                  *)
(***************************************************************************)

\* the answer of the remote to the request for page number i
PageAnswer(pages, i) ==
    IF i < Len(pages) THEN pages[i + 1] ELSE [ok |-> TRUE, items |-> <<>>]

RECURSIVE getLocalesFrom(_, _, _, _, _)
\* the loop of getLocales from page number i on: asked holds the page
\* numbers requested before
getLocalesFrom(pages, perPage, i, allLocales, asked) ==
    LET answer == PageAnswer(pages, i)
    IN  IF ~answer.ok
        THEN [err |-> TRUE, locales |-> <<>>, requests |-> Append(asked, i)]
        ELSE IF Len(answer.items) < perPage
        THEN [err |-> FALSE, locales |-> allLocales \o answer.items,
              requests |-> Append(asked, i)]
        ELSE getLocalesFrom(pages, perPage, i + 1, allLocales \o answer.items,
                            Append(asked, i))

\* getLocales with a loop that starts at page number 1
getLocalesFromPageOne(pages, perPage) ==
    getLocalesFrom(pages, perPage, 1, <<>>, <<>>)

\* getLocales(ctx, projectId) against a remote that answers pages: the error,
\* the locales returned, the page numbers requested
getLocales(pages, perPage) ==
    getLocalesFrom(pages, perPage, 0, <<>>, <<>>)

\* downloadLocaleImpl without the test for 304: the body of a 304 is returned
downloadLocaleImplNo304(resp, etag) ==
    IF ~resp.sent THEN [data |-> <<>>, etag |-> "", err |-> TRUE]
    ELSE IF ~resp.hasEtag THEN [data |-> <<>>, etag |-> "", err |-> TRUE]
    ELSE IF resp.status \notin {200, 304} THEN [data |-> <<>>, etag |-> "", err |-> TRUE]
    ELSE [data |-> resp.body, etag |-> resp.etag, err |-> FALSE]

\* downloadLocaleImpl(..., etag) when the remote answers resp
\* downloadLocaleImpl that looks at the status before the ETag header
downloadLocaleImplStatusFirst(resp, etag) ==
    IF ~resp.sent THEN [data |-> <<>>, etag |-> "", err |-> TRUE]
    ELSE IF resp.status = 304 THEN [data |-> <<>>, etag |-> "", err |-> FALSE]
    ELSE IF resp.status # 200 THEN [data |-> <<>>, etag |-> "", err |-> TRUE]
    ELSE IF ~resp.hasEtag THEN [data |-> <<>>, etag |-> "", err |-> TRUE]
    ELSE [data |-> resp.body, etag |-> resp.etag, err |-> FALSE]

downloadLocaleImpl(resp, etag) ==
    IF ~resp.sent THEN [data |-> <<>>, etag |-> "", err |-> TRUE]
    ELSE IF ~resp.hasEtag THEN [data |-> <<>>, etag |-> "", err |-> TRUE]
    ELSE IF resp.status = 304 THEN [data |-> <<>>, etag |-> "", err |-> FALSE]
    ELSE IF resp.status # 200 THEN [data |-> <<>>, etag |-> "", err |-> TRUE]
    ELSE [data |-> resp.body, etag |-> resp.etag, err |-> FALSE]

\* downloadLocale(ctx, projectId, project, langId, lang) after ctx.Etag
\* returned etag, when the remote answers resp: the If-None-Match value sent
\* ("" for none), the error returned, whether OnDownload is invoked and the
\* data and the token it is invoked with
downloadLocale(etag, resp) ==
    IF downloadLocaleImpl(resp, etag).err
    THEN [sent |-> etag, err |-> TRUE, onDownload |-> 0, data |-> <<>>, etag |-> ""]
    ELSE IF Len(downloadLocaleImpl(resp, etag).data) = 0
    THEN [sent |-> etag, err |-> FALSE, onDownload |-> 0, data |-> <<>>, etag |-> ""]
    ELSE [sent |-> etag, err |-> FALSE, onDownload |-> 1,
          data |-> downloadLocaleImpl(resp, etag).data,
          etag |-> downloadLocaleImpl(resp, etag).etag]

\* uploadLocaleImpl that takes every 2xx status for a success
uploadLocaleImplAny2xx(status) ==
    IF status = 0 THEN [errors |-> 1, onUpload |-> 0]
    ELSE IF status \notin 200..299 THEN [errors |-> 1, onUpload |-> 0]
    ELSE [errors |-> 0, onUpload |-> 1]

\* uploadLocaleImpl(...) when the request is answered with status (0: Do
\* failed): the errors handed to ErrorHandler and the calls of OnUpload
uploadLocaleImpl(status) ==
    IF status = 0 THEN [errors |-> 1, onUpload |-> 0]
    ELSE IF status # 201 THEN [errors |-> 1, onUpload |-> 0]
    ELSE [errors |-> 0, onUpload |-> 1]

(***************************************************************************)
(* GetLocalizationJsonFromSources: filepath.Walk calls findLocalizedStrings *)
(* for each file, which starts a goroutine for each file whose path ends   *)
(* in "api/i18n.go"; the goroutine of file i finds the one identifier i.   *)
(* gen holds the position of the caller (pc), the files and the next one   *)
(* to visit, the position of each goroutine (g), the counter of v.wg (wg)  *)
(* and the callers parked in its Wait (waiters), the map v.funcNames, what *)
(* the range loop of MakeJson saw when it began (seen), whether an Add     *)
(* wrote the map during that loop (raced), and the identifiers of the      *)
(* returned JSON (json).                                                   *)
(***************************************************************************)

\* the most files the walk visits
MaxFiles ==
    3

\* the files of a walk: for each one, whether its path has the suffix
WalkedFiles ==
    UNION { [1..n -> BOOLEAN] : n \in 1..MaxFiles }

\* the files under basepath when the tool runs: two with the suffix
SourceTree ==
    <<TRUE, TRUE>>

\* GetLocalizationJsonFromSources is not running
NoGen ==
    [pc |-> "none", files |-> SourceTree]

\* the same, for the files of g
Stopped(g) ==
    [pc |-> "none", files |-> g.files]

\* v = NewFuncVisit(), before filepath.Walk
NewFuncVisit(files) ==
    [pc |-> "Walk", files |-> files, next |-> 1,
     g |-> [i \in DOMAIN files |-> "none"], wg |-> 0, waiters |-> 0,
     funcNames |-> {}, seen |-> {}, raced |-> FALSE, json |-> {}]

\* what the steps of GetLocalizationJsonFromSources leave alone
GenFrame ==
    UNCHANGED <<pc, exit, runs, now, runInfo, runInfoFile, localeFiles, folders, removing, todo,
                project, locales, calls, trusted, last, remotePages, writes,
                skipped, other>>

\* the process runs and the scan has begun: its goroutines take steps
Scanning ==
    gen.pc \notin {"none", "throw", "panic"}

\* ctx.GetLocalesForUpdate(), the first statement of Upload, up to
\* filepath.Walk
GetLocalesForUpdate ==
    /\ pc = "Upload"
    /\ gen.pc = "none"
    /\ gen' = NewFuncVisit(gen.files)
    /\ GenFrame

\* filepath.Walk calls findLocalizedStrings for the next file: `go func()`
\* for a file with the suffix; the goroutine has not run yet
findLocalizedStrings ==
    /\ gen.pc = "Walk"
    /\ gen.next <= Len(gen.files)
    /\ gen' = [gen EXCEPT !.next = @ + 1,
                          !.g[gen.next] = IF gen.files[gen.next]
                                          THEN "wg.Add" ELSE "none"]
    /\ GenFrame

\* filepath.Walk returns
WalkReturn ==
    /\ gen.pc = "Walk"
    /\ gen.next > Len(gen.files)
    /\ gen' = [gen EXCEPT !.pc = "wg.Wait"]
    /\ GenFrame

\* v.wg.Wait() is called: it returns when the counter is zero, and else
\* counts the caller as a waiter and parks it
wgWait ==
    /\ gen.pc = "wg.Wait"
    /\ gen' = IF gen.wg = 0 THEN [gen EXCEPT !.pc = "MakeJson"]
              ELSE [gen EXCEPT !.pc = "parked", !.waiters = @ + 1]
    /\ GenFrame

\* v.wg.Wait() after the caller was woken: it panics ("WaitGroup is reused
\* before previous Wait has returned") when the state is not zero again
wgWaitWoken ==
    /\ gen.pc = "woken"
    /\ gen' = IF gen.wg # 0 \/ gen.waiters # 0 THEN [gen EXCEPT !.pc = "panic"]
              ELSE [gen EXCEPT !.pc = "MakeJson"]
    /\ GenFrame

\* MakeJson begins its range loop over v.funcNames (it takes no lock)
MakeJsonRange ==
    /\ gen.pc = "MakeJson"
    /\ gen' = [gen EXCEPT !.pc = "range", !.seen = gen.funcNames, !.raced = FALSE]
    /\ GenFrame

\* MakeJson returns.  A write of the map during the range loop is a data
\* race: the loop may produce or skip each identifier added meanwhile, or
\* the runtime ends the process (concurrent map iteration and map write).
MakeJsonReturn ==
    /\ gen.pc = "range"
    /\ \/ \E ids \in SUBSET (gen.funcNames \ gen.seen) :
            gen' = [gen EXCEPT !.pc = "returned", !.json = gen.seen \cup ids]
       \/ /\ gen.raced
          /\ gen' = [gen EXCEPT !.pc = "throw"]
    /\ GenFrame

\* the goroutine of file i: v.wg.Add(1), which panics ("WaitGroup misuse:
\* Add called concurrently with Wait") when it raises a counter of zero
\* that still has a waiter
goAdd(i) ==
    /\ Scanning
    /\ gen.g[i] = "wg.Add"
    /\ gen' = IF gen.waiters # 0 /\ gen.wg = 0
              THEN [gen EXCEPT !.pc = "panic", !.wg = @ + 1]
              ELSE [gen EXCEPT !.g[i] = "ast.Walk", !.wg = @ + 1]
    /\ GenFrame

\* the goroutine of file i: ast.Walk(v, file), whose Visit calls v.Add(id)
goWalk(i) ==
    /\ Scanning
    /\ gen.g[i] = "ast.Walk"
    /\ gen' = [gen EXCEPT !.g[i] = "wg.Done", !.funcNames = @ \cup {i},
                          !.raced = @ \/ gen.pc = "range"]
    /\ GenFrame

\* the goroutine of file i: the deferred v.wg.Done() lowers the counter;
\* the one that brings it to zero while a caller is parked goes on to wake it
goDone(i) ==
    /\ Scanning
    /\ gen.g[i] = "wg.Done"
    /\ gen' = [gen EXCEPT !.wg = @ - 1,
                          !.g[i] = IF gen.wg = 1 /\ gen.waiters # 0
                                   THEN "release" ELSE "ended"]
    /\ GenFrame

\* the goroutine of file i, in Done after the counter reached zero: it
\* panics when the state has changed, and else clears the waiters and wakes
\* the parked caller
goRelease(i) ==
    /\ Scanning
    /\ gen.g[i] = "release"
    /\ gen' = IF gen.wg # 0 THEN [gen EXCEPT !.pc = "panic"]
              ELSE [gen EXCEPT !.g[i] = "ended", !.waiters = 0,
                               !.pc = IF @ = "parked" THEN "woken" ELSE @]
    /\ GenFrame

\* the Go runtime ends the process: a fatal error (concurrent map iteration
\* and map write) or a panic that nothing recovers
runtimeExit ==
    /\ gen.pc \in {"throw", "panic"}
    /\ pc' = "idle"
    /\ exit' = gen.pc
    /\ runInfo' = EmptyRunInfo
    /\ gen' = Stopped(gen)
    /\ last' = [NoStep EXCEPT !.op = "GetLocalesForUpdate"]
    /\ UNCHANGED <<runs, now, runInfoFile, localeFiles, folders, removing, todo, project, locales,
                   calls, trusted, remotePages, writes, skipped, other>>

NextGen ==
    \/ GetLocalesForUpdate
    \/ findLocalizedStrings
    \/ WalkReturn
    \/ wgWait
    \/ wgWaitWoken
    \/ MakeJsonRange
    \/ MakeJsonReturn
    \/ \E i \in 1..MaxFiles : i \in DOMAIN gen.files /\ goAdd(i)
    \/ \E i \in 1..MaxFiles : i \in DOMAIN gen.files /\ goWalk(i)
    \/ \E i \in 1..MaxFiles : i \in DOMAIN gen.files /\ goDone(i)
    \/ \E i \in 1..MaxFiles : i \in DOMAIN gen.files /\ goRelease(i)
    \/ runtimeExit

(***************************************************************************)
(* The run: main, readRunInfo, processLocales, Upload, Download,           *)
(* writeRunInfo.  Processes run one after the other.                       *)
(***************************************************************************)

\* a run-info file that holds a record but a last_run_time of another type
FileWithBadTime ==
    RunInfoFile("json", TRUE, <<CheckSum(Crc32(BodyHello), EtagOne, BACKEND, "en-US")>>,
                FALSE, 0)

\* a run-info file whose "lst" is no array
FileWithBadList ==
    RunInfoFile("json", FALSE, <<>>, TRUE, StartTime - GLOBAL_RUN_DELAY)

\* a well-formed run-info file that holds two records of one pair and a
\* last_run_time before the interval; json.Unmarshal loads it as it is
FileWithTwoRecords ==
    RunInfoFile("json", TRUE,
                <<CheckSum(Crc32(BodyHello), EtagOne, BACKEND, "en-US"),
                  CheckSum(Crc32(BodyMixed), EtagTwo, BACKEND, "en-US")>>,
                TRUE, StartTime - GLOBAL_RUN_DELAY - 1)

\* what the tool may find at getRunInfoFileName() before its first start
InitialRunInfoFiles ==
    { AbsentRunInfoFile,
      RunInfoFile("unreadable", FALSE, <<>>, FALSE, 0),
      RunInfoFile("syntax", FALSE, <<>>, FALSE, 0),
      FileWithBadTime, FileWithBadList, FileWithTwoRecords }

\* no two records of the list c are for the same pair
NoDuplicate(c) ==
    \A i, j \in 1..Len(c) :
        (c[i].ProjectName = c[j].ProjectName /\ c[i].LocaleName = c[j].LocaleName)
            => i = j

NoLocaleFiles ==
    [pr \in Pairs |-> NoFile]

Init ==
    /\ pc = "idle"
    /\ exit = "none"
    /\ runs = 0
    /\ now = StartTime
    /\ runInfo = EmptyRunInfo
    /\ runInfoFile \in InitialRunInfoFiles
    /\ localeFiles = NoLocaleFiles
    /\ folders = {}
    /\ removing = NotRemoving
    /\ todo = {}
    /\ project = ""
    /\ locales = <<>>
    /\ calls = 0
    /\ trusted = {}
    /\ last = NoStep
    /\ remotePages = <<>>
    /\ writes = 0
    /\ skipped = {}
    /\ other = NoOther
    /\ gen = NoGen

\* the process ends: os.Exit, log.Fatal, a panic, or the return of main
Exits(how) ==
    /\ pc' = "idle"
    /\ exit' = how
    /\ runInfo' = EmptyRunInfo
    /\ todo' = {}
    /\ project' = ""
    /\ locales' = <<>>

\* main up to readRunInfo: the first start is at StartTime, every other one d
\* seconds after the start before it.
\* Without a connection net.Dial returns a nil conn, and defer conn.Close()
\* panics before the result is looked at.
main ==
    /\ writes' = 0
    /\ skipped' = {}
    /\ UNCHANGED <<other, gen>>
    /\ pc = "idle"
    /\ runs < MaxRuns
    /\ \E d \in (IF runs = 0 THEN {0} ELSE Delays), online \in BOOLEAN :
        /\ now' = now + d
        /\ IF online
           THEN /\ pc' = "readRunInfo"
                /\ exit' = "none"
           ELSE /\ pc' = "idle"
                /\ exit' = "panic"
    /\ runs' = runs + 1
    /\ runInfo' = EmptyRunInfo
    /\ calls' = 0
    /\ trusted' = {}
    /\ last' = [NoStep EXCEPT !.op = "main"]
    /\ UNCHANGED <<runInfoFile, localeFiles, folders, removing, todo, project, locales, remotePages>>

\* json.Unmarshal(buff, &runInfo): the fields of the right type are stored,
\* and an error is returned when a field has another type
UnmarshalRunInfo(file) ==
    [err   |-> ~(file.lstOk /\ file.timeOk),
     value |-> [CheckSumList |-> IF file.lstOk THEN file.lst ELSE <<>>,
                LastRunTime  |-> IF file.timeOk THEN file.time ELSE 0]]

\* json.Marshal(&runInfo), as the file it makes
MarshalRunInfo(info) ==
    RunInfoFile("json", TRUE, info.CheckSumList, TRUE, info.LastRunTime)

\* os.Create(getRunInfoFileName()) by the process who: the file is made, or
\* cut to no bytes when it exists, and who holds a descriptor for it
Create(file, who) ==
    [RunInfoFile("syntax", FALSE, <<>>, FALSE, 0) EXCEPT
        !.size = 0, !.open = file.open \cup {who}]

\* writer.Write(data) and writer.Flush() by the process who, data being
\* json.Marshal of info: the bytes go to offset 0 of the file who created.
\* When the file was removed since, it has no name any more; when another
\* process wrote more bytes since, the end of those bytes stays behind the
\* ones who writes.  The process ends after that, which closes the descriptor.
Write(file, who, info) ==
    IF who \notin file.open THEN file
    ELSE IF MarshalSize(info.CheckSumList, info.LastRunTime) >= file.size
        THEN [MarshalRunInfo(info) EXCEPT !.open = file.open \ {who}]
    ELSE [RunInfoFile("syntax", FALSE, <<>>, FALSE, 0) EXCEPT
             !.size = file.size, !.open = file.open \ {who}]

readRunInfo ==
    /\ UNCHANGED <<writes, skipped, other, gen>>
    /\ pc = "readRunInfo"
    /\ last' = [NoStep EXCEPT !.op = "readRunInfo"]
    /\ UNCHANGED <<runs, now, runInfoFile, localeFiles, folders, removing, calls, trusted, remotePages>>
    /\ CASE runInfoFile.kind = "absent" ->
              /\ runInfo' = EmptyRunInfo
              /\ pc' = "processLocales"
              /\ UNCHANGED <<exit, todo, project, locales>>
         [] runInfoFile.kind = "unreadable" ->
              Exits("fatal")
         [] runInfoFile.kind = "syntax" ->
              /\ pc' = "os.Remove"
              /\ UNCHANGED <<exit, runInfo, todo, project, locales>>
         [] OTHER ->
              /\ runInfo' = UnmarshalRunInfo(runInfoFile).value
              /\ pc' = IF UnmarshalRunInfo(runInfoFile).err
                       THEN "os.Remove" ELSE "processLocales"
              /\ UNCHANGED <<exit, todo, project, locales>>

\* readRunInfo returns after json.Unmarshal returned an error: the deferred
\* os.Remove(getRunInfoFileName()) takes the name off whatever file has it now
readRunInfoRemove ==
    /\ UNCHANGED <<writes, skipped, other, gen>>
    /\ pc = "os.Remove"
    /\ runInfoFile' = AbsentRunInfoFile
    /\ pc' = "processLocales"
    /\ last' = [NoStep EXCEPT !.op = "os.Remove"]
    /\ UNCHANGED <<exit, runs, now, runInfo, localeFiles, folders, removing, todo, project, locales,
                   calls, trusted, remotePages>>

\* the test with < for <=
RateGateStrict(t, lastRunTime) ==
    t - lastRunTime < GLOBAL_RUN_DELAY

\* the test of processLocales that ends the process at once
RateGate(t, lastRunTime) ==
    t - lastRunTime <= GLOBAL_RUN_DELAY

\* d.Readdirnames(-1) on the project folder name: the locale files in it
Readdirnames(files, name) ==
    { l \in LocaleNames : files[<<name, l>>].exists }

\* the pairs whose record holds the hash of the file that is on disk
TrustedPairs ==
    { pr \in Pairs :
        /\ localeFiles[pr].exists
        /\ GetCrc32(runInfo.CheckSumList, pr[1], pr[2]) # INVALID_CRC32
        /\ GetCrc32(runInfo.CheckSumList, pr[1], pr[2]) = getFileCrc32(pr[1], pr[2]) }

\* processLocales up to the loop of removeContents: the rate gate, then
\* os.Open and Readdirnames on getLocalizationFolderName() (no name when the
\* folder is missing)
processLocales ==
    /\ UNCHANGED <<writes, skipped, other, gen>>
    /\ pc = "processLocales"
    /\ last' = [NoStep EXCEPT !.op = "processLocales"]
    /\ UNCHANGED <<runs, now, runInfoFile, localeFiles, folders, calls, remotePages>>
    /\ IF RateGate(now, runInfo.LastRunTime)
       THEN /\ Exits("gated")
            /\ UNCHANGED <<trusted, removing>>
       ELSE /\ trusted' = TrustedPairs
            /\ removing' = [NotRemoving EXCEPT !.names = folders]
            /\ pc' = "removeContents"
            /\ UNCHANGED <<exit, runInfo, todo, project, locales>>

\* removeContents(getLocalizationFolderName()): the next name of the range
\* loop and os.RemoveAll up to its listing.  os.Remove does it all for a
\* folder that is empty or gone; for another one RemoveAll lists its entries.
\* After the last name removeContents returns and ctx.Upload begins.
removeContents ==
    /\ pc = "removeContents"
    /\ last' = [NoStep EXCEPT !.op = "removeContents"]
    /\ IF removing.names = {}
       THEN /\ pc' = "Upload"
            /\ removing' = NotRemoving
            /\ UNCHANGED folders
       ELSE \E name \in removing.names :
              IF Readdirnames(localeFiles, name) = {}
              THEN /\ folders' = folders \ {name}
                   /\ removing' = [removing EXCEPT !.names = @ \ {name}]
                   /\ UNCHANGED pc
              ELSE /\ removing' = [names   |-> removing.names \ {name},
                                   name    |-> name,
                                   entries |-> Readdirnames(localeFiles, name)]
                   /\ pc' = "os.RemoveAll"
                   /\ UNCHANGED folders
    /\ UNCHANGED <<exit, runs, now, runInfo, runInfoFile, localeFiles, todo, project,
                   locales, calls, trusted, remotePages, writes, skipped, other, gen>>

\* os.RemoveAll: the unlink of one entry of its listing; an entry that is
\* gone already is no error
RemoveAllUnlink ==
    /\ pc = "os.RemoveAll"
    /\ removing.entries # {}
    /\ \E l \in removing.entries :
        /\ localeFiles' = [localeFiles EXCEPT ![<<removing.name, l>>] = NoFile]
        /\ removing' = [removing EXCEPT !.entries = @ \ {l}]
    /\ last' = [NoStep EXCEPT !.op = "unlink"]
    /\ UNCHANGED <<pc, exit, runs, now, runInfo, runInfoFile, folders, todo, project,
                   locales, calls, trusted, remotePages, writes, skipped, other, gen>>

\* os.RemoveAll after the last unlink: the rmdir of the folder.  A folder that
\* is gone is no error; one that holds a file again (ENOTEMPTY) is the error
\* RemoveAll returns, removeContents returns it at once, and processLocales,
\* which does not look at it, goes on to ctx.Upload.
RemoveAllRmdir ==
    /\ pc = "os.RemoveAll"
    /\ removing.entries = {}
    /\ IF Readdirnames(localeFiles, removing.name) = {}
       THEN /\ folders' = folders \ {removing.name}
            /\ removing' = [removing EXCEPT !.name = ""]
            /\ pc' = "removeContents"
       ELSE /\ removing' = NotRemoving
            /\ pc' = "Upload"
            /\ UNCHANGED folders
    /\ last' = [NoStep EXCEPT !.op = "rmdir"]
    /\ UNCHANGED <<exit, runs, now, runInfo, runInfoFile, localeFiles, todo, project,
                   locales, calls, trusted, remotePages, writes, skipped, other, gen>>

\* ctx.Upload(localCtx) after GetLocalesForUpdate returned its one key
\* defaultProject:defaultLocale with its one buffer, the JSON of the scan.
\* Nothing reads v or waits for its goroutines after that: the model stops
\* them here.
Upload ==
    /\ UNCHANGED <<writes, skipped, other>>
    /\ pc = "Upload"
    /\ gen.pc = "returned"
    /\ gen' = Stopped(gen)
    /\ \E status \in UploadStatuses :
        LET ok == defaultProject \in DOMAIN phraseappProjects
            r  == IF ok THEN uploadLocaleImpl(status)
                  ELSE [errors |-> 1, onUpload |-> 0]
        IN  /\ calls' = IF ok THEN calls + 1 ELSE calls
            /\ last' = [NoStep EXCEPT !.op = "Upload", !.project = defaultProject,
                                      !.locale = defaultLocale, !.status = status,
                                      !.onUpload = r.onUpload, !.errors = r.errors,
                                      !.uploaded = gen.json]
            /\ IF r.errors > 0
               THEN Exits(ErrorHandler)
               ELSE /\ pc' = "Download"
                    /\ todo' = DOMAIN phraseappProjects
                    /\ UNCHANGED <<exit, runInfo, project, locales>>
    /\ UNCHANGED <<runs, now, runInfoFile, localeFiles, folders, removing, trusted, remotePages>>

\* ctx.Download: the next project of the range loop and its getLocales
DownloadProject ==
    /\ UNCHANGED <<writes, skipped, other, gen>>
    /\ pc = "Download"
    /\ locales = <<>>
    /\ todo # {}
    /\ \E name \in todo, ok \in BOOLEAN : \E listing \in Listings(name) :
        LET r == getLocales(<<[ok |-> ok, items |-> listing]>>, PerPage)
        IN  /\ calls' = calls + Len(r.requests)
            /\ last' = [NoStep EXCEPT !.op = "getLocales", !.project = name,
                                      !.errors = IF r.err THEN 1 ELSE 0]
            /\ IF r.err
               THEN Exits(ErrorHandler)
               ELSE /\ project' = name
                    /\ todo' = todo \ {name}
                    /\ locales' = r.locales
                    /\ UNCHANGED <<pc, exit, runInfo>>
    /\ UNCHANGED <<runs, now, runInfoFile, localeFiles, folders, removing, trusted, remotePages>>

\* ctx.Download: downloadLocale for the next locale of the current project,
\* up to the request: ctx.Etag reads the file and the record, and the
\* request leaves with the token it returned
DownloadLocaleEtag ==
    /\ pc = "Download"
    /\ locales # <<>>
    /\ pc' = "downloadLocale"
    /\ last' = [NoStep EXCEPT !.op = "Etag", !.project = project,
                              !.locale = Head(locales).Name,
                              !.etag = Etag(project, Head(locales).Name),
                              !.stored = GetETag(runInfo.CheckSumList, project,
                                                 Head(locales).Name)]
    /\ UNCHANGED <<exit, runs, now, runInfo, runInfoFile, localeFiles, folders, removing, todo,
                   project, locales, calls, trusted, remotePages, writes,
                   skipped, other, gen>>

\* ctx.Download: the answer to the request of downloadLocale arrives.
\* downloadLocale returns at once when OnDownload is not invoked; when it is,
\* OnDownload runs up to ioutil.WriteFile: os.MkdirAll makes the folder of the
\* project.
DownloadLocale ==
    /\ pc = "downloadLocale"
    /\ \E resp \in DownloadResponses :
        LET lang == Head(locales).Name
            r    == downloadLocale(last.etag, resp)
        IN  /\ calls' = calls + 1
            /\ last' = [NoStep EXCEPT !.op = IF r.onDownload = 1 THEN "os.MkdirAll"
                                             ELSE "downloadLocale",
                                      !.project = project,
                                      !.locale = lang, !.etag = r.sent,
                                      !.stored = last.stored,
                                      !.resp = resp, !.onDownload = r.onDownload,
                                      !.errors = IF r.err THEN 1 ELSE 0]
            /\ skipped' = IF ~r.err /\ resp.status = 304
                           THEN skipped \cup {<<project, lang, r.sent>>} ELSE skipped
            /\ IF r.err
               THEN /\ Exits(ErrorHandler)
                    /\ UNCHANGED folders
               ELSE IF r.onDownload = 1
               THEN /\ folders' = MkdirAll(folders, project)
                    /\ pc' = "ioutil.WriteFile"
                    /\ UNCHANGED <<exit, runInfo, todo, project, locales>>
               ELSE /\ locales' = Tail(locales)
                    /\ pc' = "Download"
                    /\ UNCHANGED <<exit, runInfo, todo, project, folders>>
    /\ UNCHANGED <<runs, now, runInfoFile, localeFiles, removing, trusted, remotePages,
                   writes, other, gen>>

\* OnDownload: ioutil.WriteFile up to its write.  The open fails when the
\* folder of the project is gone (ENOENT), and log.Fatalln ends the process.
WriteFile ==
    /\ pc = "ioutil.WriteFile"
    /\ last' = [last EXCEPT !.op = "ioutil.WriteFile"]
    /\ IF project \notin folders
       THEN /\ Exits("fatal")
            /\ UNCHANGED localeFiles
       ELSE /\ localeFiles' = [localeFiles EXCEPT
                                  ![<<project, Head(locales).Name>>] = OpenFile(@, "main")]
            /\ pc' = "f.Write"
            /\ UNCHANGED <<exit, runInfo, todo, project, locales>>
    /\ UNCHANGED <<runs, now, runInfoFile, folders, removing, calls, trusted,
                   remotePages, writes, skipped, other, gen>>

\* OnDownload from the write of ioutil.WriteFile on, and the return of
\* downloadLocale
WriteFileWrite ==
    /\ pc = "f.Write"
    /\ LET lang == Head(locales).Name
           r    == downloadLocale(last.etag, last.resp)
           out  == OnDownload(project, lang, r.etag, r.data)
       IN  /\ localeFiles' = [localeFiles EXCEPT
                                  ![<<project, lang>>] = WriteAt(@, "main", r.data)]
           /\ last' = [last EXCEPT !.op = "downloadLocale", !.warnings = out.warnings]
           /\ IF out.exit # ""
              THEN Exits(out.exit)
              ELSE /\ runInfo' = [runInfo EXCEPT !.CheckSumList = out.list]
                   /\ locales' = Tail(locales)
                   /\ pc' = "Download"
                   /\ UNCHANGED <<exit, todo, project>>
    /\ UNCHANGED <<runs, now, runInfoFile, folders, removing, calls, trusted,
                   remotePages, writes, skipped, other, gen>>

\* processLocalesReturn that also saves the run record at once
processLocalesReturnSaves ==
    /\ pc = "Download"
    /\ locales = <<>>
    /\ todo = {}
    /\ runInfo' = [runInfo EXCEPT !.LastRunTime = now]
    /\ runInfoFile' = MarshalRunInfo(runInfo')
    /\ writes' = writes + 1
    /\ pc' = "writeRunInfo"
    /\ last' = [NoStep EXCEPT !.op = "processLocalesReturn"]
    /\ UNCHANGED <<exit, runs, now, localeFiles, folders, removing, todo, project, locales, calls,
                   trusted, remotePages, skipped, other, gen>>

\* processLocales after ctx.Download returned
processLocalesReturn ==
    /\ UNCHANGED <<writes, skipped, other, gen>>
    /\ pc = "Download"
    /\ locales = <<>>
    /\ todo = {}
    /\ runInfo' = [runInfo EXCEPT !.LastRunTime = now]
    /\ pc' = "writeRunInfo"
    /\ last' = [NoStep EXCEPT !.op = "processLocalesReturn"]
    /\ UNCHANGED <<exit, runs, now, runInfoFile, localeFiles, folders, removing, todo, project,
                   locales, calls, trusted, remotePages>>

\* writeRunInfo up to writer.Write: os.Create and json.Marshal.  When
\* os.Create fails (the file or its folder may not be written) writeRunInfo
\* logs "Unable to write run info" and returns, and main returns after it:
\* the process ends as it does after a write, and the file is as it was.
writeRunInfo ==
    /\ UNCHANGED <<writes, skipped, other, gen>>
    /\ pc = "writeRunInfo"
    /\ last' = [NoStep EXCEPT !.op = "os.Create"]
    /\ UNCHANGED <<runs, now, localeFiles, folders, removing, calls, trusted, remotePages>>
    /\ \E created \in BOOLEAN :
        IF created
        THEN /\ runInfoFile' = Create(runInfoFile, "main")
             /\ pc' = "writer.Write"
             /\ UNCHANGED <<exit, runInfo, todo, project, locales>>
        ELSE /\ runInfoFile' = runInfoFile
             /\ Exits("done")

\* writeRunInfo from writer.Write on, and the return of main
writeRunInfoWrite ==
    /\ writes' = writes + 1
    /\ UNCHANGED <<skipped, other, gen>>
    /\ pc = "writer.Write"
    /\ runInfoFile' = Write(runInfoFile, "main", runInfo)
    /\ Exits("done")
    /\ last' = [NoStep EXCEPT !.op = "writeRunInfo"]
    /\ UNCHANGED <<runs, now, localeFiles, folders, removing, calls, trusted, remotePages>>

Next ==
    \/ main
    \/ readRunInfo
    \/ readRunInfoRemove
    \/ processLocales
    \/ removeContents
    \/ RemoveAllUnlink
    \/ RemoveAllRmdir
    \/ NextGen
    \/ Upload
    \/ DownloadProject
    \/ DownloadLocaleEtag
    \/ DownloadLocale
    \/ WriteFile
    \/ WriteFileWrite
    \/ processLocalesReturn
    \/ writeRunInfo
    \/ writeRunInfoWrite

Spec ==
    Init /\ [][Next]_vars

\* the starts at which the run-info file holds at most one record per pair
\* (the absent file is one of them)
InitNoDuplicate ==
    /\ Init
    /\ NoDuplicate(runInfoFile.lst)

SpecNoDuplicate ==
    InitNoDuplicate /\ [][Next]_vars

(***************************************************************************)
(* Two processes of the tool on the same files.  The first one takes the   *)
(* steps above; the second one takes the steps of main on its own var      *)
(* runInfo (other.runInfo), with a remote that answers 201 to its upload   *)
(* and 200 with the token EtagTwo and the body BodyHello to its downloads.  *)
(***************************************************************************)

InitTwo ==
    /\ pc = "idle"
    /\ exit = "none"
    /\ runs = MaxRuns - 1
    /\ now = StartTime
    /\ runInfo = EmptyRunInfo
    /\ runInfoFile = AbsentRunInfoFile
    /\ localeFiles = NoLocaleFiles
    /\ folders = {}
    /\ removing = NotRemoving
    /\ todo = {}
    /\ project = ""
    /\ locales = <<>>
    /\ calls = 0
    /\ trusted = {}
    /\ last = NoStep
    /\ remotePages = <<>>
    /\ writes = 0
    /\ skipped = {}
    /\ other = [NoOther EXCEPT !.pc = "idle"]
    /\ gen = NoGen

\* what the steps of the second process leave alone
OtherFrame ==
    UNCHANGED <<pc, exit, runs, now, runInfo, removing, todo, project, locales,
                calls, trusted, last, remotePages, writes, skipped, gen>>

\* main of the second process, up to readRunInfo
otherMain ==
    /\ other.pc = "idle"
    /\ other' = [other EXCEPT !.pc = "readRunInfo"]
    /\ UNCHANGED <<runInfoFile, localeFiles, folders>>
    /\ OtherFrame

\* readRunInfo of the second process
otherReadRunInfo ==
    /\ other.pc = "readRunInfo"
    /\ UNCHANGED <<runInfoFile, localeFiles, folders>>
    /\ OtherFrame
    /\ CASE runInfoFile.kind = "absent" ->
              other' = [other EXCEPT !.pc = "processLocales", !.runInfo = EmptyRunInfo]
         [] runInfoFile.kind = "unreadable" ->
              other' = [other EXCEPT !.pc = "fatal"]
         [] runInfoFile.kind = "syntax" ->
              other' = [other EXCEPT !.pc = "os.Remove"]
         [] OTHER ->
              other' = [other EXCEPT !.pc = IF UnmarshalRunInfo(runInfoFile).err
                                            THEN "os.Remove" ELSE "processLocales",
                                     !.runInfo = UnmarshalRunInfo(runInfoFile).value]

\* the deferred os.Remove of readRunInfo of the second process
otherReadRunInfoRemove ==
    /\ other.pc = "os.Remove"
    /\ runInfoFile' = AbsentRunInfoFile
    /\ other' = [other EXCEPT !.pc = "processLocales"]
    /\ UNCHANGED <<localeFiles, folders>>
    /\ OtherFrame

\* processLocales of the second process up to the loop of removeContents
otherProcessLocales ==
    /\ other.pc = "processLocales"
    /\ IF RateGate(now, other.runInfo.LastRunTime)
       THEN other' = [other EXCEPT !.pc = "gated"]
       ELSE other' = [other EXCEPT !.pc = "removeContents",
                                   !.removing = [NotRemoving EXCEPT !.names = folders]]
    /\ UNCHANGED <<runInfoFile, localeFiles, folders>>
    /\ OtherFrame

\* removeContents of the second process: the next name of its loop and
\* os.RemoveAll up to its listing; after the last name its upload, which is
\* answered 201
otherRemoveContents ==
    /\ other.pc = "removeContents"
    /\ IF other.removing.names = {}
       THEN /\ other' = [other EXCEPT !.pc = "Download", !.removing = NotRemoving]
            /\ UNCHANGED folders
       ELSE \E name \in other.removing.names :
              IF Readdirnames(localeFiles, name) = {}
              THEN /\ folders' = folders \ {name}
                   /\ other' = [other EXCEPT !.removing.names = @ \ {name}]
              ELSE /\ other' = [other EXCEPT
                                  !.pc = "os.RemoveAll",
                                  !.removing = [names   |-> other.removing.names \ {name},
                                                name    |-> name,
                                                entries |-> Readdirnames(localeFiles, name)]]
                   /\ UNCHANGED folders
    /\ UNCHANGED <<runInfoFile, localeFiles>>
    /\ OtherFrame

\* os.RemoveAll of the second process: the unlink of one entry
otherRemoveAllUnlink ==
    /\ other.pc = "os.RemoveAll"
    /\ other.removing.entries # {}
    /\ \E l \in other.removing.entries :
        /\ localeFiles' = [localeFiles EXCEPT ![<<other.removing.name, l>>] = NoFile]
        /\ other' = [other EXCEPT !.removing.entries = @ \ {l}]
    /\ UNCHANGED <<runInfoFile, folders>>
    /\ OtherFrame

\* os.RemoveAll of the second process: the rmdir of the folder
otherRemoveAllRmdir ==
    /\ other.pc = "os.RemoveAll"
    /\ other.removing.entries = {}
    /\ IF Readdirnames(localeFiles, other.removing.name) = {}
       THEN /\ folders' = folders \ {other.removing.name}
            /\ other' = [other EXCEPT !.pc = "removeContents", !.removing.name = ""]
       ELSE /\ other' = [other EXCEPT !.pc = "Download", !.removing = NotRemoving]
            /\ UNCHANGED folders
    /\ UNCHANGED <<runInfoFile, localeFiles>>
    /\ OtherFrame

\* a download of the second process, answered 200 with the token EtagTwo and
\* the body BodyHello: OnDownload up to ioutil.WriteFile
otherDownload ==
    /\ other.pc = "Download"
    /\ \E l \in LocaleNames :
        /\ <<BACKEND, l>> \notin other.upserted
        /\ other' = [other EXCEPT !.pc = "ioutil.WriteFile", !.locale = l]
    /\ folders' = MkdirAll(folders, BACKEND)
    /\ UNCHANGED <<runInfoFile, localeFiles>>
    /\ OtherFrame

\* ioutil.WriteFile of the second process up to its write
otherWriteFile ==
    /\ other.pc = "ioutil.WriteFile"
    /\ IF BACKEND \notin folders
       THEN /\ other' = [other EXCEPT !.pc = "fatal"]
            /\ UNCHANGED localeFiles
       ELSE /\ other' = [other EXCEPT !.pc = "f.Write"]
            /\ localeFiles' = [localeFiles EXCEPT
                                  ![<<BACKEND, other.locale>>] = OpenFile(@, "other")]
    /\ UNCHANGED <<runInfoFile, folders>>
    /\ OtherFrame

\* OnDownload of the second process from the write of ioutil.WriteFile on:
\* the body is an entry list, and the record of the pair is upserted
otherWriteFileWrite ==
    /\ other.pc = "f.Write"
    /\ localeFiles' = [localeFiles EXCEPT
                          ![<<BACKEND, other.locale>>] = WriteAt(@, "other", BodyHello)]
    /\ other' = [other EXCEPT
                    !.pc = "Download",
                    !.runInfo.CheckSumList =
                        Upsert(@, BACKEND, other.locale, EtagTwo, Crc32(BodyHello)),
                    !.upserted = @ \cup {<<BACKEND, other.locale>>},
                    !.locale = ""]
    /\ UNCHANGED <<runInfoFile, folders>>
    /\ OtherFrame

\* processLocales of the second process after ctx.Download returned
otherProcessLocalesReturn ==
    /\ other.pc = "Download"
    /\ other' = [other EXCEPT !.pc = "writeRunInfo", !.runInfo.LastRunTime = now]
    /\ UNCHANGED <<runInfoFile, localeFiles, folders>>
    /\ OtherFrame

\* writeRunInfo of the second process up to writer.Write, or its return
\* (and that of main) when os.Create fails
otherWriteRunInfo ==
    /\ other.pc = "writeRunInfo"
    /\ \E created \in BOOLEAN :
        IF created
        THEN /\ runInfoFile' = Create(runInfoFile, "other")
             /\ other' = [other EXCEPT !.pc = "writer.Write"]
        ELSE /\ runInfoFile' = runInfoFile
             /\ other' = [other EXCEPT !.pc = "done"]
    /\ UNCHANGED <<localeFiles, folders>>
    /\ OtherFrame

\* writeRunInfo of the second process from writer.Write on, when it first
\* loads the file again and saves its records together with the ones it found
otherWriteRunInfoWriteMerges ==
    /\ other.pc = "writer.Write"
    /\ runInfoFile' =
        IF runInfoFile.kind = "json" /\ runInfoFile.lstOk
        THEN MarshalRunInfo([other.runInfo EXCEPT
                                !.CheckSumList = runInfoFile.lst \o @])
        ELSE MarshalRunInfo(other.runInfo)
    /\ other' = [other EXCEPT !.pc = "done", !.writes = @ + 1]
    /\ UNCHANGED <<localeFiles, folders>>
    /\ OtherFrame

\* writeRunInfo of the second process from writer.Write on, and the return
\* of its main
otherWriteRunInfoWrite ==
    /\ other.pc = "writer.Write"
    /\ runInfoFile' = Write(runInfoFile, "other", other.runInfo)
    /\ other' = [other EXCEPT !.pc = "done", !.writes = @ + 1]
    /\ UNCHANGED <<localeFiles, folders>>
    /\ OtherFrame

OtherNext ==
    \/ otherMain
    \/ otherReadRunInfo
    \/ otherReadRunInfoRemove
    \/ otherProcessLocales
    \/ otherRemoveContents
    \/ otherRemoveAllUnlink
    \/ otherRemoveAllRmdir
    \/ otherDownload
    \/ otherWriteFile
    \/ otherWriteFileWrite
    \/ otherProcessLocalesReturn
    \/ otherWriteRunInfo
    \/ otherWriteRunInfoWrite

SpecTwo ==
    InitTwo /\ [][Next \/ OtherNext]_vars

(***************************************************************************)
(* GetLocalizationJsonFromSources alone, on every walk of up to MaxFiles   *)
(* files                                                                   *)
(***************************************************************************)

InitGen ==
    /\ pc = "Upload"
    /\ exit = "none"
    /\ runs = 1
    /\ now = StartTime
    /\ runInfo = EmptyRunInfo
    /\ runInfoFile = AbsentRunInfoFile
    /\ localeFiles = NoLocaleFiles
    /\ folders = {}
    /\ removing = NotRemoving
    /\ todo = {}
    /\ project = ""
    /\ locales = <<>>
    /\ calls = 0
    /\ trusted = {}
    /\ last = NoStep
    /\ remotePages = <<>>
    /\ writes = 0
    /\ skipped = {}
    /\ other = NoOther
    /\ gen \in { [NoGen EXCEPT !.files = files] : files \in WalkedFiles }

SpecGen ==
    InitGen /\ [][NextGen]_vars

(***************************************************************************)
(* Etag alone, on every checksum list and every state of the local files   *)
(***************************************************************************)

\* the longest checksum list Etag is tried on
MaxRecords ==
    2

\* the pairs Etag is asked about
EtagPairs ==
    {BACKEND} \X LocaleNames

EtagRecords ==
    { CheckSum(h, e, pr[1], pr[2]) :
        h \in {INVALID_CRC32, Crc32(BodyHello), Crc32(BodyMixed)},
        e \in ETags, pr \in EtagPairs }

EtagLists ==
    UNION { [1..n -> EtagRecords] : n \in 0..MaxRecords }

EtagFiles ==
    { [pr \in Pairs |-> IF pr \in EtagPairs THEN f[pr] ELSE NoFile] :
        f \in [EtagPairs -> {NoFile, FileOf(BodyHello), FileOf(BodyMixed)}] }

InitEtag ==
    /\ pc = "Etag"
    /\ exit = "none"
    /\ runs = 0
    /\ now = StartTime
    /\ runInfo \in { [CheckSumList |-> c, LastRunTime |-> 0] : c \in EtagLists }
    /\ runInfoFile = AbsentRunInfoFile
    /\ localeFiles \in EtagFiles
    /\ folders = { pr[1] : pr \in { q \in Pairs : localeFiles[q].exists } }
    /\ removing = NotRemoving
    /\ todo = {}
    /\ project = ""
    /\ locales = <<>>
    /\ calls = 0
    /\ trusted = {}
    /\ last = NoStep
    /\ remotePages = <<>>
    /\ writes = 0
    /\ skipped = {}
    /\ other = NoOther
    /\ gen = NoGen

\* a call of Etag(projectName, localeName)
EtagCall ==
    /\ UNCHANGED <<writes, skipped, other, gen>>
    /\ pc = "Etag"
    /\ \E pr \in EtagPairs :
        last' = [NoStep EXCEPT !.op = "Etag", !.project = pr[1], !.locale = pr[2],
                               !.etag = Etag(pr[1], pr[2])]
    /\ UNCHANGED <<pc, exit, runs, now, runInfo, runInfoFile, localeFiles, folders, removing, todo,
                   project, locales, calls, trusted, remotePages>>

SpecEtag ==
    InitEtag /\ [][EtagCall]_vars

(***************************************************************************)
(* getLocales alone, on every sequence of pages                            *)
(***************************************************************************)

\* the longest sequence of pages the remote holds
MaxPages ==
    3

\* the sizes of a page: empty, short, one less than full, full (PerPage)
PageSizes ==
    {0, 10, PerPage - 1, PerPage}

\* the page with number k and n items: item j of page k is <<k, j>>
Page(k, n) ==
    [ok |-> TRUE, items |-> [j \in 1..n |-> <<k, j>>]]

\* a request for a page that fails
FailedPage ==
    [ok |-> FALSE, items |-> <<>>]

\* the remotes: every page has one of the sizes, or its request fails (-1)
PageSequences ==
    { [k \in DOMAIN sz |-> IF sz[k] = -1 THEN FailedPage ELSE Page(k - 1, sz[k])] :
        sz \in UNION { [1..n -> PageSizes \cup {-1}] : n \in 0..MaxPages } }

InitPages ==
    /\ pc = "getLocales"
    /\ exit = "none"
    /\ runs = 0
    /\ now = StartTime
    /\ runInfo = EmptyRunInfo
    /\ runInfoFile = AbsentRunInfoFile
    /\ localeFiles = NoLocaleFiles
    /\ folders = {}
    /\ removing = NotRemoving
    /\ todo = {}
    /\ project = ""
    /\ locales = <<>>
    /\ calls = 0
    /\ trusted = {}
    /\ last = NoStep
    /\ remotePages \in PageSequences
    /\ writes = 0
    /\ skipped = {}
    /\ other = NoOther
    /\ gen = NoGen

\* a call of getLocales against the remote
getLocalesCall ==
    /\ UNCHANGED <<writes, skipped, other, gen>>
    /\ pc = "getLocales"
    /\ last.op = "none"
    /\ LET r == getLocales(remotePages, PerPage)
       IN  last' = [NoStep EXCEPT !.op = "getLocales", !.result = r.locales,
                                  !.requests = r.requests,
                                  !.errors = IF r.err THEN 1 ELSE 0]
    /\ UNCHANGED <<pc, exit, runs, now, runInfo, runInfoFile, localeFiles, folders, removing, todo,
                   project, locales, calls, trusted, remotePages>>

SpecPages ==
    InitPages /\ [][getLocalesCall]_vars

(***************************************************************************)
(* Properties                                                              *)
(***************************************************************************)

\* the indices of the records of the pair in the checksum list
RecordsOf(p, l) ==
    { i \in 1..Len(runInfo.CheckSumList) :
        /\ runInfo.CheckSumList[i].ProjectName = p
        /\ runInfo.CheckSumList[i].LocaleName = l }

\* the stored hash and the stored token of the pair: those of its first
\* record; the sentinel and "" when it has none
StoredHash(p, l) ==
    IF RecordsOf(p, l) = {} THEN INVALID_CRC32
    ELSE runInfo.CheckSumList[CHOOSE i \in RecordsOf(p, l) :
                                \A j \in RecordsOf(p, l) : i <= j].DataCrc32

StoredToken(p, l) ==
    IF RecordsOf(p, l) = {} THEN ""
    ELSE runInfo.CheckSumList[CHOOSE i \in RecordsOf(p, l) :
                                \A j \in RecordsOf(p, l) : i <= j].ETag

\* the CRC32 of the local file of the pair, the sentinel when it is absent
FileHash(p, l) ==
    IF localeFiles[<<p, l>>].exists
    THEN ChecksumTable[localeFiles[<<p, l>>].data]
    ELSE INVALID_CRC32

\* C1 as stated: Etag returns the stored token of the pair when the stored
\* hash equals the CRC32 of the current local file (the sentinel 0 for an
\* absent file or an absent record), and "" otherwise.
C1_TokenWhenHashesEqual ==
    last.op = "Etag" =>
        last.etag = IF StoredHash(last.project, last.locale)
                        = FileHash(last.project, last.locale)
                    THEN StoredToken(last.project, last.locale)
                    ELSE ""

\* C1 amended: Etag returns the stored token of the pair when the stored
\* hash is not the sentinel 0 and equals the CRC32 of the current local file,
\* and "" otherwise.
C1_TokenWhenValidHashesEqual ==
    last.op = "Etag" =>
        last.etag = IF /\ StoredHash(last.project, last.locale) # INVALID_CRC32
                       /\ StoredHash(last.project, last.locale)
                            = FileHash(last.project, last.locale)
                    THEN StoredToken(last.project, last.locale)
                    ELSE ""

\* Etag returned the token of a record whose hash is the hash of the file
C1_Witness ==
    /\ last.op = "Etag"
    /\ last.etag = EtagTwo
    /\ localeFiles[<<last.project, last.locale>>].exists
    /\ Len(runInfo.CheckSumList) = 2

\* the number of the first page that is short or whose request fails
FirstShortPage ==
    CHOOSE k \in 0..Len(remotePages) :
        /\ ~PageAnswer(remotePages, k).ok
            \/ Len(PageAnswer(remotePages, k).items) < PerPage
        /\ \A j \in 0..(k - 1) :
            /\ PageAnswer(remotePages, j).ok
            /\ Len(PageAnswer(remotePages, j).items) = PerPage

RECURSIVE PagesUpTo(_)
\* the items of the pages 0..k, in page order
PagesUpTo(k) ==
    IF k < 0 THEN <<>> ELSE PagesUpTo(k - 1) \o PageAnswer(remotePages, k).items

\* C8: getLocales returns the concatenation, in page order, of the pages up
\* to and including the first short page, requests the page numbers 0, 1, ..
\* up to that page once each and none after it (a failed request ends it with
\* an error); pages of sizes 25, 25, 10 give 60 entries after 3 requests.
C8_PagesConcatenated ==
    last.op = "getLocales" =>
        /\ last.requests = [i \in 1..(FirstShortPage + 1) |-> i - 1]
        /\ IF PageAnswer(remotePages, FirstShortPage).ok
           THEN /\ last.errors = 0
                /\ last.result = PagesUpTo(FirstShortPage)
           ELSE /\ last.errors = 1
                /\ last.result = <<>>
        /\ remotePages = <<Page(0, 25), Page(1, 25), Page(2, 10)>> =>
                /\ Len(last.result) = 60
                /\ last.result[26] = <<1, 1>>
                /\ last.requests = <<0, 1, 2>>

\* getLocales returned 60 locales after requests for three pages
C8_Witness ==
    /\ last.op = "getLocales"
    /\ Len(last.result) = 60
    /\ Len(last.requests) = 3
    /\ last.errors = 0

\* the last step was a download request answered with status and an ETag header
Answered(status) ==
    /\ last.op = "downloadLocale"
    /\ last.resp.sent
    /\ last.resp.hasEtag
    /\ last.resp.status = status

\* C2: in a run that passes the rate gate, the download request of a pair
\* whose persisted record holds the hash of the local file the previous run
\* left on disk carries the stored cache token.
C2_TrustedPairFetchedConditionally ==
    (last.op = "downloadLocale" /\ <<last.project, last.locale>> \in trusted) =>
        /\ last.etag # ""
        /\ last.etag = last.stored

\* C3: after a failure of the upload or download phase is reported to
\* ErrorHandler the process is still running (it goes on to the remaining
\* entries, projects and locales and to the save step).
C3_ReportedFailureDoesNotAbort ==
    last.errors > 0 => pc # "idle"

\* data decodes as a JSON array of objects with a string id and a string
\* translation each
IsEntryList(data) ==
    /\ Unmarshal(data).err = ""
    /\ \A i \in 1..Len(Unmarshal(data).elems) :
        /\ Unmarshal(data).elems[i].t = "obj"
        /\ MapIndex(Unmarshal(data).elems[i].v, KeyId).t = "str"
        /\ MapIndex(Unmarshal(data).elems[i].v, KeyTranslation).t = "str"

\* the run goes on and the record of the pair of the last step (the first
\* one of the list for the pair, which GetETag and GetCrc32 read) holds the
\* hash of the body downloaded and the token of the response, and the file
\* of the pair is the body
FreshRecord ==
    /\ pc = "Download"
    /\ StoredHash(last.project, last.locale) = ChecksumTable[last.resp.body]
    /\ StoredToken(last.project, last.locale) = last.resp.etag
    /\ localeFiles[<<last.project, last.locale>>] = FileOf(last.resp.body)

\* the same, and the record is the only one of the pair
OneFreshRecord ==
    /\ FreshRecord
    /\ Cardinality(RecordsOf(last.project, last.locale)) = 1

\* C4: after every download answered 200 with a non-empty body, whatever
\* its bytes, the checksum list holds exactly one record for the pair, with
\* the CRC32 of the file written and the token of the response.
C4_OneRecordAfterAnyBody ==
    (Answered(200) /\ Len(last.resp.body) > 0) => OneFreshRecord

\* C5: a download answered 304 never invokes OnDownload, writes no local
\* file and leaves the checksum list (in memory and on disk) as it was.
C5_NotModifiedChangesNothing ==
    [][ ( /\ pc \in {"downloadLocale", "ioutil.WriteFile", "f.Write"}
          /\ last'.resp.sent
          /\ last'.resp.status = 304 ) =>
            /\ last'.op = "downloadLocale"
            /\ last'.onDownload = 0
            /\ localeFiles' = localeFiles
            /\ folders' = folders
            /\ runInfoFile' = runInfoFile
            /\ \/ runInfo'.CheckSumList = runInfo.CheckSumList
               \/ (~last'.resp.hasEtag /\ exit' = "fatal") ]_vars

\* a download was answered 304 while the pair had a record, and the run goes on
C5_Witness ==
    /\ Answered(304)
    /\ last.resp.body = BodyHello
    /\ last.stored # ""
    /\ pc = "Download"

\* the run-info file holds a list and a time of the right types
WellFormed(file) ==
    file.kind = "json" /\ file.lstOk /\ file.timeOk

\* the step with which main returns
RunEndsDone ==
    pc # "idle" /\ pc' = "idle" /\ exit' = "done"

\* a run started within GLOBAL_RUN_DELAY of the persisted last_run_time
\* reads the file without rewriting or removing it, makes no request to the
\* remote, touches no local locale file and ends at the gate
WithinIntervalDoesNothing ==
    /\ (pc \in {"idle", "readRunInfo"} /\ WellFormed(runInfoFile)) =>
        /\ runInfoFile' = runInfoFile
        /\ localeFiles' = localeFiles
        /\ folders' = folders
        /\ calls' = 0
        /\ pc' = "processLocales" => runInfo'.LastRunTime = runInfoFile.time
    /\ ( /\ pc = "processLocales"
         /\ WellFormed(runInfoFile)
         /\ now - runInfoFile.time <= GLOBAL_RUN_DELAY ) =>
        /\ pc' = "idle"
        /\ exit' = "gated"
        /\ calls' = 0
        /\ runInfoFile' = runInfoFile
        /\ localeFiles' = localeFiles
        /\ folders' = folders

\* the step leaves in the run-info file the list of the process and the
\* time of its processLocales as last_run_time
Persists ==
    runInfoFile' = RunInfoFile("json", TRUE, runInfo.CheckSumList, TRUE, now)

C7_OnUploadOnAny2xx ==
    (last.op = "Upload" /\ last.project \in DOMAIN phraseappProjects) =>
        IF last.status \in 200..299
        THEN last.onUpload = 1 /\ last.errors = 0
        ELSE last.onUpload = 0 /\ last.errors = 1

\* C7 amended: the same with status 201 in the place of any 2xx status.
C7_OnUploadOn201 ==
    (last.op = "Upload" /\ last.project \in DOMAIN phraseappProjects) =>
        IF last.status = 201
        THEN last.onUpload = 1 /\ last.errors = 0 /\ pc = "Download"
        ELSE last.onUpload = 0 /\ last.errors = 1

\* an upload answered 201 invoked OnUpload
C7_Witness ==
    /\ last.op = "Upload"
    /\ last.status = 201
    /\ last.onUpload = 1
    /\ last.project = BACKEND
    /\ last.locale = "en-US"

\* C9: readRunInfo leaves the run record empty and lets the run go on
\* whenever the file is missing, cannot be read or cannot be parsed, a JSON
\* text with a field of the wrong type included.
C9_FailedLoadLeavesEmptyRecord ==
    [][ (pc = "readRunInfo" /\ ~WellFormed(runInfoFile)) =>
            /\ pc' \in {"processLocales", "os.Remove"}
            /\ runInfo' = EmptyRunInfo ]_vars

\* the ids OnDownload is to warn about: those of the entries of data whose
\* translation is their id, in the order of the entries
UntranslatedIds(data) ==
    LET entries == Unmarshal(data).elems
        Same(e) == MapIndex(e.v, KeyTranslation) = MapIndex(e.v, KeyId)
        same    == SelectSeq(entries, Same)
    IN  [i \in 1..Len(same) |-> MapIndex(same[i].v, KeyId).v]

\* C10: for a downloaded list of {id, translation} entries OnDownload logs
\* exactly one warning per entry whose translation equals its id, in order,
\* and none for another entry; the warnings are not fatal: the run goes on,
\* the file is written and the record of the pair is upserted.
C10_OneWarningPerUntranslatedEntry ==
    (last.op = "downloadLocale" /\ last.onDownload = 1 /\ IsEntryList(last.resp.body)) =>
        /\ [i \in 1..Len(last.warnings) |-> last.warnings[i].v]
                = UntranslatedIds(last.resp.body)
        /\ last.resp.body = BodyHello => last.warnings = <<[t |-> "str", v |-> StrHello]>>
        /\ last.resp.body = BodyMixed =>
                last.warnings = <<[t |-> "str", v |-> StrA], [t |-> "str", v |-> StrD]>>
        /\ FreshRecord

\* a list of three entries, two of them untranslated, gave two warnings
C10_Witness ==
    /\ last.op = "downloadLocale"
    /\ last.onDownload = 1
    /\ last.resp.body = BodyMixed
    /\ Len(last.warnings) = 2
    /\ pc = "Download"

\* the answers "not modified" and "success with an empty body" of the model
NotModifiedResponses ==
    { r \in DownloadResponses : r.sent /\ r.hasEtag /\ r.status = 304 }

EmptyBodyResponses ==
    { r \in DownloadResponses : r.sent /\ r.hasEtag /\ r.status = 200 /\ r.body = <<>> }

\* what downloadLocale made of an answer: the error, the callback, and what
\* the callback is given to write to the file and to store as the token of
\* the pair
OutcomeOf(r) ==
    <<r.err, r.onDownload, r.data, r.etag>>

\* C11: at every download, the answer 304 and the answer 200 with an empty
\* body lead to different outcomes of downloadLocale (callbacks invoked,
\* error reported, files written, token stored for the pair).
C11_NotModifiedDiffersFromEmptyBody ==
    pc = "downloadLocale" =>
        \A a \in NotModifiedResponses, b \in EmptyBodyResponses :
            OutcomeOf(downloadLocale(last.etag, a))
                # OutcomeOf(downloadLocale(last.etag, b))

\* the step is a download whose OnDownload returned (it called Upsert)
UpsertStep ==
    /\ pc = "f.Write"
    /\ pc' = "Download"
    /\ last'.op = "downloadLocale"
    /\ last'.onDownload = 1

\* C12: from an absent run-info file on (and from every other run-info file
\* without two records of a pair that a first start may find), the checksum
\* list in memory and the one in the file hold at most one record per pair
\* in every reachable state, and an Upsert for a pair that has a record
\* keeps the length of the list.
C12_AtMostOneRecordPerPair ==
    /\ [](/\ NoDuplicate(runInfo.CheckSumList)
          /\ runInfoFile.kind = "json" => NoDuplicate(runInfoFile.lst))
    /\ [][ (UpsertStep /\ Find(runInfo.CheckSumList, last'.project, last'.locale, 1) # 0)
            => Len(runInfo'.CheckSumList) = Len(runInfo.CheckSumList) ]_vars

\* a second run replaced the token of a pair that the first run had saved
C12_Witness ==
    /\ pc = "Download"
    /\ runs = 2
    /\ last.op = "downloadLocale"
    /\ last.onDownload = 1
    /\ last.stored # ""
    /\ last.stored # last.resp.etag
    /\ GetETag(runInfo.CheckSumList, last.project, last.locale) = last.resp.etag

\* the pairs that have a record in the list c
PairsOf(c) ==
    { <<c[i].ProjectName, c[i].LocaleName>> : i \in 1..Len(c) }

\* the list new holds, at the same places, the records of old: those of
\* the pair (p, l) still for that pair, the others untouched
KeepsOthers(old, new, p, l) ==
    /\ Len(new) >= Len(old)
    /\ \A i \in 1..Len(old) :
        IF old[i].ProjectName = p /\ old[i].LocaleName = l
        THEN new[i].ProjectName = p /\ new[i].LocaleName = l
        ELSE new[i] = old[i]

\* C13: an Upsert for a pair leaves the records of the other pairs as they
\* are and where they are, and no step of a running process (Etag with its
\* GetETag and GetCrc32, OnDownload, Upsert) takes a pair out of the
\* checksum list; what writeRunInfo saves holds every pair of the list.
C13_UpsertKeepsOtherRecords ==
    [][ /\ UpsertStep =>
            KeepsOthers(runInfo.CheckSumList, runInfo'.CheckSumList,
                        last'.project, last'.locale)
        /\ ( /\ pc \in {"processLocales", "removeContents", "os.RemoveAll", "Upload",
                       "Download", "downloadLocale", "ioutil.WriteFile", "f.Write",
                       "writeRunInfo"}
             /\ pc' # "idle" ) =>
            PairsOf(runInfo.CheckSumList) \subseteq PairsOf(runInfo'.CheckSumList)
        /\ pc = "writer.Write" =>
            PairsOf(runInfo.CheckSumList) \subseteq PairsOf(runInfoFile'.lst) ]_vars

\* an Upsert replaced the first of two records and the second one stayed
C13_Witness ==
    /\ pc = "Download"
    /\ last.op = "downloadLocale"
    /\ last.onDownload = 1
    /\ last.stored # ""
    /\ last.stored # last.resp.etag
    /\ Len(runInfo.CheckSumList) = 2
    /\ Find(runInfo.CheckSumList, last.project, last.locale, 1) = 1
    /\ runInfo.CheckSumList[1].ETag = last.resp.etag
    /\ runInfo.CheckSumList[2].LocaleName # last.locale

\* C14: a download answered without the ETag header, whatever its status,
\* is an error handed to ErrorHandler (which ends the process); it is not
\* taken for "not modified" and OnDownload is not invoked.
C14_MissingETagIsReportedError ==
    (last.op = "downloadLocale" /\ last.resp.sent /\ ~last.resp.hasEtag) =>
        /\ last.errors = 1
        /\ last.onDownload = 0
        /\ last.warnings = <<>>
        /\ pc = "idle"
        /\ exit = ErrorHandler

\* a 304 without the ETag header was reported as an error
C14_Witness ==
    /\ last.op = "downloadLocale"
    /\ last.resp.sent
    /\ ~last.resp.hasEtag
    /\ last.resp.status = 304
    /\ last.errors = 1
    /\ exit = ErrorHandler

\* a process that is still loading, uploading or downloading has neither
\* written nor cut the run-info file (readRunInfo may remove it); the file
\* is written only by the step after os.Create, the last one of the process
NoWriteBeforeTheEnd ==
    /\ pc \in {"processLocales", "removeContents", "os.RemoveAll", "Upload",
                "Download", "downloadLocale", "ioutil.WriteFile", "f.Write"} =>
            runInfoFile' = runInfoFile
    /\ pc' = "writer.Write" => pc = "writeRunInfo"
    /\ writes' # writes => (pc = "writer.Write" \/ pc = "idle")

\* C15 as stated: a process that ended as done wrote the run-info file
\* exactly once, as its last step; one that is still running or that ended
\* otherwise (rate gate, fatal error, panic) never wrote it.
C15_RunInfoWrittenExactlyOnce ==
    /\ [](/\ pc # "idle" => writes = 0
          /\ (pc = "idle" /\ exit = "done") => (writes = 1 /\ last.op = "writeRunInfo")
          /\ (pc = "idle" /\ exit # "done") => writes = 0)
    /\ [][NoWriteBeforeTheEnd]_vars

\* C15 amended: a process that ended as done wrote the run-info file
\* exactly once, as its last step, when its os.Create had succeeded, and
\* not at all when os.Create had failed; one that is still running or that
\* ended otherwise never wrote it.
C15_RunInfoWrittenOnceAtTheEnd ==
    /\ [](/\ pc # "idle" => writes = 0
          /\ (pc = "idle" /\ exit = "done") =>
                \/ writes = 1 /\ last.op = "writeRunInfo"
                \/ writes = 0 /\ last.op = "os.Create"
          /\ (pc = "idle" /\ exit # "done") => writes = 0)
    /\ [][ /\ NoWriteBeforeTheEnd
           /\ pc = "writer.Write" => (writes' = 1 /\ RunEndsDone)
           /\ (pc = "writeRunInfo" /\ pc' = "idle") =>
                (writes' = 0 /\ runInfoFile' = runInfoFile) ]_vars

\* a run that uploaded and downloaded ended as done and saved its record
C15_Witness ==
    /\ pc = "idle"
    /\ exit = "done"
    /\ writes = 1
    /\ runInfoFile.kind = "json"
    /\ Len(runInfoFile.lst) = 2
    /\ runInfoFile.time = now

\* the bytes of file are json.Marshal of info
Holds(file, info) ==
    /\ WellFormed(file)
    /\ file.lst = info.CheckSumList
    /\ file.time = info.LastRunTime

\* C16: with two processes of the tool on the same run-info file, in every
\* interleaving the write of writeRunInfo merges nothing: it leaves the file
\* as it is (the file it created has been removed), or with bytes that are
\* no JSON text (the other process wrote more bytes meanwhile), or with the
\* list of the process that writes and nothing of what the file held.  So a
\* record the other process saved after this one loaded the file is lost
\* (the witness is such an interleaving).
C16_SaveOverwritesWhatTheOtherSaved ==
    [][ /\ (pc = "writer.Write" /\ pc' = "idle") =>
            \/ runInfoFile' = runInfoFile
            \/ runInfoFile'.kind = "syntax"
            \/ Holds(runInfoFile', runInfo)
        /\ (other.pc = "writer.Write" /\ other'.pc = "done") =>
            \/ runInfoFile' = runInfoFile
            \/ runInfoFile'.kind = "syntax"
            \/ Holds(runInfoFile', other.runInfo) ]_vars

\* both processes ended as done, and the saved run record lacks a record
\* the second process had upserted and saved: its update is lost
C16_Witness ==
    /\ pc = "idle"
    /\ exit = "done"
    /\ writes = 1
    /\ other.pc = "done"
    /\ other.writes = 1
    /\ other.upserted # {}
    /\ runInfoFile.kind = "json"
    /\ \E pr \in other.upserted : pr \notin PairsOf(runInfoFile.lst)

\* the goroutines findLocalizedStrings has started
StartedGoroutines ==
    { i \in DOMAIN gen.files : gen.g[i] # "none" }

\* C17: once v.wg.Wait() has returned, every goroutine that
\* findLocalizedStrings started during the walk has ended, so no Add writes
\* v.funcNames while MakeJson reads it, and the JSON that is returned holds
\* the identifier of every file with the suffix.
C17_MakeJsonAfterEveryGoroutine ==
    /\ gen.pc \in {"MakeJson", "range", "returned", "throw"} =>
            \A i \in StartedGoroutines : gen.g[i] = "ended"
    /\ gen.pc \notin {"throw", "panic"}
    /\ gen.pc = "returned" =>
            gen.json = { i \in DOMAIN gen.files : gen.files[i] }

\* the file of the pair is on disk and its CRC32 is the hash of the pair's
\* record in the list c
FileMatchesRecord(c, p, l) ==
    /\ localeFiles[<<p, l>>].exists
    /\ GetCrc32(c, p, l) = Crc32(localeFiles[<<p, l>>].data)

\* C18 as stated: when a run ends as done, every pair whose download was
\* answered 304 in that run has its local file, with the CRC32 that the
\* record of the pair holds, in the list of the process and in the list it
\* saves.
C18_SkippedPairHasItsFile ==
    [][ RunEndsDone =>
          \A s \in skipped :
            /\ FileMatchesRecord(runInfo.CheckSumList, s[1], s[2])
            /\ writes' = 1 => FileMatchesRecord(runInfoFile'.lst, s[1], s[2]) ]_vars

\* C18, amended: the same for every pair whose 304 answered a request that
\* carried the stored token in If-None-Match.
C18_ConditionallySkippedPairHasItsFile ==
    [][ RunEndsDone =>
          \A s \in skipped :
            s[3] # "" =>
                /\ FileMatchesRecord(runInfo.CheckSumList, s[1], s[2])
                /\ writes' = 1 => FileMatchesRecord(runInfoFile'.lst, s[1], s[2]) ]_vars

\* a run ended as done after a 304 that answered a request with a token
C18_Witness ==
    /\ pc = "idle"
    /\ exit = "done"
    /\ writes = 1
    /\ \E s \in skipped :
        /\ s[3] # ""
        /\ FileMatchesRecord(runInfoFile.lst, s[1], s[2])
        /\ GetETag(runInfoFile.lst, s[1], s[2]) = s[3]

====
